---- MODULE Spec2Model ----
(***************************************************************************)
(* pr070c01: a Noise_NN handshake followed by an encrypted, length-framed  *)
(* packet transport over a duplex byte stream.                             *)
(*                                                                         *)
(* A byte is a digit in base ByteBase, a u16 is two of them, little        *)
(* endian; every length constant of the wire format derives from that.     *)
(***************************************************************************)
EXTENDS Integers, Sequences, FiniteSets, TLC

VARIABLES
    codec,  \* the codec specification: a packet, a buffer, the results
    fw,     \* the Frame Writer: its computation, its last result, its output
    fr,     \* the Frame Reader: its computation, its last result, its input
    wire,   \* the bytes written to the stream and not yet read from it
    fenv,   \* the stream's behaviour so far
    pr,     \* the two Protocol instances, each with the call in progress
    net,    \* the bytes in flight in each direction between them
    penv,   \* what was sent and received so far
    eng,    \* the two handshake engines
    chan,   \* the bytes in flight and not yet flushed in each direction
    henv    \* the stream's behaviour during the handshake

frameVars == <<fw, fr, wire, fenv>>

protoVars == <<pr, net, penv>>

hsVars == <<eng, chan, henv>>

vars == <<codec, frameVars, protoVars, hsVars>>

(***************************************************************************)
(* Bounds                                                                  *)
(***************************************************************************)

\* number of values of one byte (256 in the program)
ByteBase == 16

\* field values of a Hello packet are drawn from 1..MaxFieldVal
MaxFieldVal == 2

\* a stream call that transfers only part of the bytes transfers 1..MaxChunk
MaxChunk == 2

\* number of stream calls of one run that transfer only part of the bytes
\* although more could be transferred
MaxPartial == 1

\* number of failures of the stream in one run
MaxFault == 1

(***************************************************************************)
(* Bytes and buffers                                                       *)
(***************************************************************************)

Byte == 0..(ByteBase - 1)

U16Mod == ByteBase * ByteBase

\* u16::to_le_bytes
ToLeBytes(x) == <<x % ByteBase, (x \div ByteBase) % ByteBase>>

\* u16::from_le_bytes
FromLeBytes(b0, b1) == b0 + ByteBase * b1

\* a cast to one byte
AsU8(x) == x % ByteBase

\* value as u16: truncation to the width of a u16
AsU16(x) == x % U16Mod

Zeros(n) == [i \in 1..n |-> 0]

Min(a, b) == IF a < b THEN a ELSE b

\* buf[off..off+len(bytes)].copy_from_slice(bytes), off counted from 0
WriteAt(buf, off, bytes) ==
    SubSeq(buf, 1, off) \o bytes \o SubSeq(buf, off + Len(bytes) + 1, Len(buf))

\* &buf[from..to], both counted from 0
Slice(buf, from, to) == SubSeq(buf, from + 1, to)

\* Vec::resize(n, 0)
Resize(buf, n) ==
    IF n <= Len(buf) THEN SubSeq(buf, 1, n) ELSE buf \o Zeros(n - Len(buf))

\* the sum of s[lo..hi], by halves
RECURSIVE SumRange(_, _, _)
SumRange(s, lo, hi) ==
    IF lo > hi THEN 0
    ELSE IF lo = hi THEN s[lo]
    ELSE LET mid == (lo + hi) \div 2 IN SumRange(s, lo, mid) + SumRange(s, mid + 1, hi)

SumSeq(s) == SumRange(s, 1, Len(s))

\* F of the value of x: x is evaluated once, wherever F uses it
Once(F(_), x) == CHOOSE y \in {F(v) : v \in {x}} : TRUE

(***************************************************************************)
(* Errors                                                                  *)
(***************************************************************************)

Err(kind, a, b) == [kind |-> kind, a |-> a, b |-> b]

NoErr == Err("", 0, 0)

(***************************************************************************)
(* Packet codec (packets.rs)                                               *)
(***************************************************************************)

PacketIds == {"Heartbeat", "Hello"}

\* #[repr(u16)] enum PacketId
PacketIdNum(id) == IF id = "Heartbeat" THEN 0 ELSE 1

\* PacketId::try_from(u16); "" when the number is no packet id
PacketIdOf(x) == IF x = 0 THEN "Heartbeat" ELSE IF x = 1 THEN "Hello" ELSE ""

PUBLIC_KEY_LEN == 32
HASH_LEN == 32
SIGNATURE_LEN == 64

Heartbeat == [id |-> "Heartbeat", key |-> <<>>, hash |-> <<>>, sig |-> <<>>]

Hello(key, hash, sig) == [id |-> "Hello", key |-> key, hash |-> hash, sig |-> sig]

NoPacket == [id |-> "", key |-> <<>>, hash |-> <<>>, sig |-> <<>>]

\* ed25519 PublicKey::from_bytes accepts only the encodings of curve points;
\* here: the encodings whose last byte is below half the byte range
ValidPublicKey(b) == Len(b) = PUBLIC_KEY_LEN /\ b[PUBLIC_KEY_LEN] < ByteBase \div 2

\* ed25519 Signature::try_from rejects a signature whose three highest bits
\* of the last byte are set
ValidSignature(b) == Len(b) = SIGNATURE_LEN /\ b[SIGNATURE_LEN] < ByteBase \div 8

EncOk(n, buf) == [ok |-> TRUE, n |-> n, buf |-> buf, err |-> NoErr]

EncErr(buf, e) == [ok |-> FALSE, n |-> 0, buf |-> buf, err |-> e]

EncodeBytesUnchecked(bytes, buf, off) == EncOk(Len(bytes), WriteAt(buf, off, bytes))

\* impl Encode for [u8], for Hash, PublicKey and Signature: the bytes go to
\* the head of the slice buf[off..]
EncodeBytes(bytes, buf, off) ==
    IF Len(buf) - off < Len(bytes)
    THEN EncErr(buf, Err("BufferSize", Len(bytes), Len(buf) - off))
    ELSE EncOk(Len(bytes), WriteAt(buf, off, bytes))

EncodePacketIdBigEndian(id, buf, off) ==
    IF Len(buf) - off < 2
    THEN EncErr(buf, Err("BufferSize", 2, Len(buf) - off))
    ELSE EncOk(2, WriteAt(buf, off, <<(PacketIdNum(id) \div ByteBase) % ByteBase,
                                      PacketIdNum(id) % ByteBase>>))

\* impl Encode for PacketId
EncodePacketId(id, buf, off) ==
    IF Len(buf) - off < 2
    THEN EncErr(buf, Err("BufferSize", 2, Len(buf) - off))
    ELSE EncOk(2, WriteAt(buf, off, ToLeBytes(PacketIdNum(id))))

\* impl Encode for Root
EncodeRoot(p, buf, off) ==
    LET r1 == EncodeBytes(p.hash, buf, off) IN
    IF ~r1.ok THEN r1 ELSE
    LET r2 == EncodeBytes(p.sig, r1.buf, off + r1.n) IN
    IF ~r2.ok THEN r2 ELSE EncOk(r1.n + r2.n, r2.buf)

\* impl Encode for Heartbeat
EncodeHeartbeat(p, buf) ==
    LET r1 == EncodePacketId("Heartbeat", buf, 0) IN
    IF ~r1.ok THEN r1 ELSE
    LET r2 == EncodeBytes(<<0, 0>>, r1.buf, r1.n) IN
    IF ~r2.ok THEN r2 ELSE EncOk(r1.n + r2.n, r2.buf)

\* impl Encode for Hello
EncodeHello(p, buf) ==
    LET r1 == EncodePacketId("Hello", buf, 0) IN
    IF ~r1.ok THEN r1 ELSE
    LET r2 == EncodeBytes(<<0, 0>>, r1.buf, r1.n) IN
    IF ~r2.ok THEN r2 ELSE
    LET r3 == EncodeBytes(p.key, r2.buf, r1.n + r2.n) IN
    IF ~r3.ok THEN r3 ELSE
    LET r4 == EncodeRoot(p, r3.buf, r1.n + r2.n + r3.n) IN
    IF ~r4.ok THEN r4 ELSE EncOk(r1.n + r2.n + r3.n + r4.n, r4.buf)

\* packet.encode(buf), dispatched on the packet's type
Encode(p, buf) ==
    IF p.id = "Heartbeat" THEN EncodeHeartbeat(p, buf) ELSE EncodeHello(p, buf)

DecOk(p, n) == [ok |-> TRUE, val |-> p, n |-> n, err |-> NoErr]

DecErr(e) == [ok |-> FALSE, val |-> NoPacket, n |-> 0, err |-> e]

\* impl Decode for PacketId: [ok, id, n, err]
DecodePacketId(buf) ==
    IF Len(buf) < 2
    THEN [ok |-> FALSE, id |-> "", n |-> 0, err |-> Err("BufferSize", 2, Len(buf))]
    ELSE LET x == FromLeBytes(buf[1], buf[2]) IN
         IF PacketIdOf(x) = ""
         THEN [ok |-> FALSE, id |-> "", n |-> 0, err |-> Err("UnknownPacketId", x, 0)]
         ELSE [ok |-> TRUE, id |-> PacketIdOf(x), n |-> 2, err |-> NoErr]

\* decode_bytes!([u8; n]), impl Decode for Hash: [ok, bytes, n, err]
DecodeBytes(buf, n) ==
    IF Len(buf) < n
    THEN [ok |-> FALSE, bytes |-> <<>>, n |-> 0, err |-> Err("BufferSize", n, Len(buf))]
    ELSE [ok |-> TRUE, bytes |-> SubSeq(buf, 1, n), n |-> n, err |-> NoErr]

\* impl Decode for PublicKey
DecodePublicKey(buf) ==
    LET r == DecodeBytes(buf, PUBLIC_KEY_LEN) IN
    IF r.ok /\ ~ValidPublicKey(r.bytes)
    THEN [ok |-> FALSE, bytes |-> <<>>, n |-> 0, err |-> Err("Ed25519", 0, 0)]
    ELSE r

\* impl Decode for Signature
DecodeSignature(buf) ==
    LET r == DecodeBytes(buf, SIGNATURE_LEN) IN
    IF r.ok /\ ~ValidSignature(r.bytes)
    THEN [ok |-> FALSE, bytes |-> <<>>, n |-> 0, err |-> Err("Ed25519", 0, 0)]
    ELSE r

DecodeRootSwapped(buf) ==
    LET r1 == DecodeSignature(buf) IN
    IF ~r1.ok THEN DecErr(r1.err) ELSE
    LET r2 == DecodeBytes(Slice(buf, r1.n, Len(buf)), HASH_LEN) IN
    IF ~r2.ok THEN DecErr(r2.err)
    ELSE DecOk(Hello(<<>>, r2.bytes, r1.bytes), r1.n + r2.n)

\* impl Decode for Root: the root as a Hello without its key
DecodeRoot(buf) ==
    LET r1 == DecodeBytes(buf, HASH_LEN) IN
    IF ~r1.ok THEN DecErr(r1.err) ELSE
    LET r2 == DecodeSignature(Slice(buf, r1.n, Len(buf))) IN
    IF ~r2.ok THEN DecErr(r2.err)
    ELSE DecOk(Hello(<<>>, r1.bytes, r2.bytes), r1.n + r2.n)

DecodeHeartbeatAnyId(buf) ==
    LET r1 == DecodePacketId(buf) IN
    IF ~r1.ok THEN DecErr(r1.err) ELSE
    LET r2 == DecodeBytes(Slice(buf, r1.n, Len(buf)), 2) IN
    IF ~r2.ok THEN DecErr(r2.err) ELSE DecOk(Heartbeat, r1.n + r2.n)

\* impl Decode for Heartbeat
DecodeHeartbeat(buf) ==
    LET r1 == DecodePacketId(buf) IN
    IF ~r1.ok THEN DecErr(r1.err) ELSE
    IF r1.id # "Heartbeat" THEN DecErr(Err("PacketId", PacketIdNum(r1.id), 0)) ELSE
    LET r2 == DecodeBytes(Slice(buf, r1.n, Len(buf)), 2) IN
    IF ~r2.ok THEN DecErr(r2.err) ELSE DecOk(Heartbeat, r1.n + r2.n)

\* impl Decode for Hello
DecodeHello(buf) ==
    LET r1 == DecodePacketId(buf) IN
    IF ~r1.ok THEN DecErr(r1.err) ELSE
    IF r1.id # "Hello" THEN DecErr(Err("PacketId", PacketIdNum(r1.id), 0)) ELSE
    LET r2 == DecodeBytes(Slice(buf, r1.n, Len(buf)), 2) IN
    IF ~r2.ok THEN DecErr(r2.err) ELSE
    LET r3 == DecodePublicKey(Slice(buf, r1.n + r2.n, Len(buf))) IN
    IF ~r3.ok THEN DecErr(r3.err) ELSE
    LET r4 == DecodeRoot(Slice(buf, r1.n + r2.n + r3.n, Len(buf))) IN
    IF ~r4.ok THEN DecErr(r4.err)
    ELSE DecOk(Hello(r3.bytes, r4.val.hash, r4.val.sig), r1.n + r2.n + r3.n + r4.n)

\* P::decode(buf) for the packet type P
Decode(P, buf) == IF P = "Heartbeat" THEN DecodeHeartbeat(buf) ELSE DecodeHello(buf)

\* a fixed-width field whose bytes depend on their position; its last byte
\* is 0, which makes it a valid key and a valid signature
FieldBytes(v, n) == [i \in 1..n |-> IF i = n THEN 0 ELSE (v + i) % ByteBase]

HEARTBEAT_LEN == 4

HelloLen == HEARTBEAT_LEN + PUBLIC_KEY_LEN + HASH_LEN + SIGNATURE_LEN

HelloPackets ==
    {Hello(FieldBytes(a, PUBLIC_KEY_LEN), FieldBytes(b + 1, HASH_LEN),
           FieldBytes(c + 2, SIGNATURE_LEN)) : a, b, c \in 1..MaxFieldVal}

(***************************************************************************)
(* Wire constants (crate packets, imported at lib.rs:13 and write.rs:17)   *)
(***************************************************************************)

\* largest Noise message: the largest u16
NOISE_MAX_LEN == U16Mod - 1

\* the length field in front of a frame
LEN_OVERHEAD == 2

\* the AEAD tag
NOISE_OVERHEAD == 16

\* a frame is longer than its payload by the length field and the tag
MSG_OVERHEAD == LEN_OVERHEAD + NOISE_OVERHEAD

RAW_MAX_LEN == NOISE_MAX_LEN - LEN_OVERHEAD

MSG_MAX_LEN == RAW_MAX_LEN - NOISE_OVERHEAD

MsgTooLongByOne(msg) == Len(msg) > MSG_MAX_LEN + 1

\* the size check of a payload (write.rs:123, lib.rs:116)
MsgTooLong(msg) == Len(msg) > MSG_MAX_LEN

RawTooLongU16(len) == len > NOISE_MAX_LEN

\* the size check of a declared length (read.rs:182, lib.rs:83)
RawTooLong(len) == len > RAW_MAX_LEN

(***************************************************************************)
(* Noise (crate snow behind the NoiseState trait, lib.rs:57-63, 277-309)   *)
(*                                                                         *)
(* Diffie-Hellman is multiplication modulo ByteBase, the cipher adds a     *)
(* keystream that depends on key, nonce and position, and the tag is a     *)
(* checksum of key, nonce, associated data and ciphertext.                 *)
(***************************************************************************)

\* Noise_NN_25519_...: length of a public key
DHLEN == 32

TAGLEN == NOISE_OVERHEAD

Pub(x) == (3 * x) % ByteBase

DH(x, pub) == (x * pub) % ByteBase

\* the public key on the wire
PubBytes(x) == [i \in 1..DHLEN |-> IF i = 1 THEN Pub(x) ELSE (x + i) % ByteBase]

MixHash(h, bytes) == (2 * h + SumSeq(bytes) + Len(bytes) + 1) % ByteBase

TagNoKey(k, n, ad, ct) ==
    Once(LAMBDA sum : [j \in 1..TAGLEN |-> (sum + j) % ByteBase],
         3 * n + ad + SumSeq(ct))

Tag(k, n, ad, ct) ==
    Once(LAMBDA sum : [j \in 1..TAGLEN |-> (sum + j) % ByteBase],
         k + 3 * n + ad + SumSeq(ct))

\* ciphertext and tag of a payload
Encrypt(k, n, ad, pt) ==
    LET ct == [i \in 1..Len(pt) |-> (pt[i] + k + n + i) % ByteBase]
    IN  ct \o Tag(k, n, ad, ct)

DecryptShifted(k, n, ad, m) ==
    IF Len(m) < TAGLEN THEN [ok |-> FALSE, pt |-> <<>>] ELSE
    LET ct == SubSeq(m, 1, Len(m) - TAGLEN)
        tag == SubSeq(m, Len(m) - TAGLEN + 1, Len(m))
    IN  IF tag # Tag(k, n, ad, ct) THEN [ok |-> FALSE, pt |-> <<>>]
        ELSE [ok |-> TRUE,
              pt |-> [i \in 1..Len(ct) |-> (ct[i] + ByteBase * (Len(ct) + U16Mod) - k - n) % ByteBase]]

\* [ok, pt]: the payload of a message, when the message authenticates
Decrypt(k, n, ad, m) ==
    IF Len(m) < TAGLEN THEN [ok |-> FALSE, pt |-> <<>>] ELSE
    LET ct == SubSeq(m, 1, Len(m) - TAGLEN)
        tag == SubSeq(m, Len(m) - TAGLEN + 1, Len(m))
    IN  IF tag # Tag(k, n, ad, ct) THEN [ok |-> FALSE, pt |-> <<>>]
        ELSE [ok |-> TRUE,
              pt |-> [i \in 1..Len(ct) |-> (ct[i] + ByteBase * (Len(ct) + U16Mod) - k - n - i) % ByteBase]]

\* a Noise state: handshake-phase (hs) with its ephemeral secret e, the
\* peer's public key re, the position pos in the message pattern, the hash h
\* and the key k; transport-phase with a key and a nonce per direction
NoiseState(hs, ini, e, re, pos, h, k, sk, rk, sn, rn) ==
    [hs |-> hs, ini |-> ini, e |-> e, re |-> re, pos |-> pos, h |-> h, k |-> k,
     sk |-> sk, rk |-> rk, sn |-> sn, rn |-> rn]

\* snow::Builder::build_initiator / build_responder with ephemeral secret e
BuildHandshake(ini, e) == NoiseState(TRUE, ini, e, 0, 0, 1, 0, 0, 0, 0, 0)

\* a transport-phase state
Transport(ini, sk, rk, sn, rn) == NoiseState(FALSE, ini, 0, 0, 2, 0, 0, sk, rk, sn, rn)

\* Split(): the key of the initiator's (d = 0) or responder's (d = 1) direction
SplitKey(s, d) == ((s.k + s.h + d) % ByteBase) + 1

\* HandshakeState::into_transport_mode: [ok, state]
IntoTransportModeSame(s) ==
    IF s.hs /\ s.pos >= 2
    THEN [ok |-> TRUE,
          state |-> IF s.ini THEN Transport(TRUE, SplitKey(s, 0), SplitKey(s, 1), 0, 0)
                    ELSE Transport(FALSE, SplitKey(s, 0), SplitKey(s, 1), 0, 0)]
    ELSE [ok |-> FALSE, state |-> s]

IntoTransportMode(s) ==
    IF s.hs /\ s.pos >= 2
    THEN [ok |-> TRUE,
          state |-> IF s.ini THEN Transport(TRUE, SplitKey(s, 0), SplitKey(s, 1), 0, 0)
                    ELSE Transport(FALSE, SplitKey(s, 1), SplitKey(s, 0), 0, 0)]
    ELSE [ok |-> FALSE, state |-> s]

NoiseOk(n, out, s) == [ok |-> TRUE, n |-> n, out |-> out, state |-> s, err |-> NoErr]

NoiseErr(s, what) == [ok |-> FALSE, n |-> 0, out |-> <<>>, state |-> s, err |-> Err("Noise", what, 0)]

\* the nonce that is never used: a cipher that has reached it is exhausted
ExhaustedNonce == U16Mod * U16Mod - 1

\* NoiseState::write_message(payload, message) with message.len() = cap:
\* [ok, n, out, state, err], out the n bytes written to the head of message
WriteMessage(s, payload, cap) ==
    IF ~s.hs THEN
        IF Len(payload) + TAGLEN > NOISE_MAX_LEN \/ Len(payload) + TAGLEN > cap
        THEN NoiseErr(s, "Input")
        ELSE IF s.sn >= ExhaustedNonce THEN NoiseErr(s, "Exhausted")
        ELSE NoiseOk(Len(payload) + TAGLEN, Encrypt(s.sk, s.sn, 0, payload),
                     [s EXCEPT !.sn = s.sn + 1])
    ELSE IF s.pos >= 2 THEN NoiseErr(s, "HandshakeAlreadyFinished")
    ELSE IF s.ini # (s.pos = 0) THEN NoiseErr(s, "NotTurnToWrite")
    ELSE IF DHLEN + Len(payload) + TAGLEN > cap THEN NoiseErr(s, "Input")
    ELSE IF s.pos = 0 THEN
        \* -> e
        LET h1 == MixHash(s.h, PubBytes(s.e))
            out == PubBytes(s.e) \o payload
        IN  NoiseOk(Len(out), out, [s EXCEPT !.pos = 1, !.h = MixHash(h1, payload)])
    ELSE
        \* <- e, ee
        LET h1 == MixHash(s.h, PubBytes(s.e))
            k == DH(s.e, s.re)
            c == Encrypt(k, 0, h1, payload)
            out == PubBytes(s.e) \o c
        IN  NoiseOk(Len(out), out, [s EXCEPT !.pos = 2, !.k = k, !.h = MixHash(h1, c)])

\* NoiseState::read_message(message, payload) with payload.len() = cap:
\* [ok, n, out, state, err], out the n bytes written to the head of payload
ReadMessage(s, m, cap) ==
    IF ~s.hs THEN
        IF Len(m) > NOISE_MAX_LEN THEN NoiseErr(s, "Input") ELSE
        LET d == Decrypt(s.rk, s.rn, 0, m) IN
        IF ~d.ok \/ cap < Len(d.pt) THEN NoiseErr(s, "Decrypt")
        ELSE NoiseOk(Len(d.pt), d.pt, [s EXCEPT !.rn = s.rn + 1])
    ELSE IF Len(m) > NOISE_MAX_LEN THEN NoiseErr(s, "Input")
    ELSE IF s.pos >= 2 THEN NoiseErr(s, "HandshakeAlreadyFinished")
    ELSE IF s.ini # (s.pos = 1) THEN NoiseErr(s, "NotTurnToRead")
    ELSE IF Len(m) < DHLEN THEN NoiseErr(s, "Input")
    ELSE
        LET reb == SubSeq(m, 1, DHLEN)
            rest == SubSeq(m, DHLEN + 1, Len(m))
            h1 == MixHash(s.h, reb)
        IN  IF s.pos = 0 THEN
                \* -> e
                IF cap < Len(rest) THEN NoiseErr(s, "Decrypt")
                ELSE NoiseOk(Len(rest), rest,
                             [s EXCEPT !.pos = 1, !.re = reb[1], !.h = MixHash(h1, rest)])
            ELSE
                \* <- e, ee
                LET k == DH(s.e, reb[1])
                    d == Decrypt(k, 0, h1, rest)
                IN  IF ~d.ok \/ cap < Len(d.pt) THEN NoiseErr(s, "Decrypt")
                    ELSE NoiseOk(Len(d.pt), d.pt,
                                 [s EXCEPT !.pos = 2, !.re = reb[1], !.k = k,
                                           !.h = MixHash(h1, rest)])

(***************************************************************************)
(* Resumable computations                                                  *)
(*                                                                         *)
(* A computation is the record of its current stage with everything the    *)
(* stage owns. One step is one turn of the loop in poll (for an async fn:  *)
(* the code up to the next stream call); it issues at most one stream      *)
(* call, whose outcome io = [k, n, data] the stream chooses. The step      *)
(* yields the next record, what poll returns (Continue: the loop goes on)  *)
(* and the number of bytes moved to or from the stream.                    *)
(***************************************************************************)

Machine(impl, tag, len, off, msg, buf, state) ==
    [impl |-> impl, tag |-> tag, len |-> len, off |-> off, msg |-> msg,
     buf |-> buf, state |-> state]

Ret(k, n, e) == [k |-> k, n |-> n, e |-> e]

RetContinue == Ret("Continue", 0, NoErr)
RetPending == Ret("Pending", 0, NoErr)
RetPanic == Ret("Panic", 0, NoErr)
RetOk(n) == Ret("Ok", n, NoErr)
RetErr(e) == Ret("Err", 0, e)

StepRes(m, ret, n) == [m |-> m, ret |-> ret, n |-> n]

\* mem::take(inner) left Empty behind and the step did not put a stage back
Panicked(m) == StepRes([m EXCEPT !.tag = "Empty"], RetPanic, 0)

IoErr == Err("Io", 0, 0)

(***************************************************************************)
(* Frame Writer (write.rs)                                                 *)
(***************************************************************************)

\* Write::new
WriteNew(msg, buf, state) == Machine("poll", "Prepare", 0, 0, msg, buf, state)

\* a writer that offers the frame from its first byte on every call
PollWriteWantsFromStart(w) ==
    IF w.tag = "Write" /\ w.off < w.len THEN Slice(w.buf, 0, w.len) ELSE <<>>

\* the bytes the next step offers to poll_write; <<>> when it makes no call
PollWriteWants(w) ==
    IF w.tag = "Write" /\ w.off < w.len THEN Slice(w.buf, w.off, w.len) ELSE <<>>

\* one turn of the loop of Write::poll
PollWriteStep(w, io) ==
    IF w.tag = "Prepare" THEN
        IF MsgTooLong(w.msg)
        THEN StepRes([w EXCEPT !.tag = "Done", !.len = 0],
                     RetErr(Err("MessageSize", MSG_MAX_LEN, Len(w.msg))), 0)
        ELSE IF Len(w.msg) + MSG_OVERHEAD > Len(w.buf)
        THEN StepRes([w EXCEPT !.buf = Resize(w.buf, Len(w.msg) + MSG_OVERHEAD)],
                     RetContinue, 0)
        ELSE Once(LAMBDA r :
                 IF r.ok
                 THEN StepRes([w EXCEPT !.tag = "Write", !.len = r.n + 2, !.off = 0,
                                        !.buf = WriteAt(WriteAt(w.buf, 2, r.out), 0,
                                                        ToLeBytes(AsU16(r.n))),
                                        !.state = r.state],
                              RetContinue, 0)
                 ELSE StepRes([w EXCEPT !.tag = "Done", !.len = 0], RetErr(r.err), 0),
                 WriteMessage(w.state, w.msg, Len(w.buf) - 2))
    ELSE IF w.tag = "Write" THEN
        IF w.off >= w.len
        THEN StepRes([w EXCEPT !.tag = "Done"], RetOk(w.len), 0)
        ELSE IF io.k = "Ok"
        THEN StepRes([w EXCEPT !.off = w.off + io.n], RetContinue, io.n)
        ELSE IF io.k = "Err"
        THEN StepRes([w EXCEPT !.tag = "Done", !.len = 0], RetErr(IoErr), 0)
        ELSE StepRes(w, RetPending, 0)
    ELSE IF w.tag = "Done" THEN StepRes(w, RetOk(w.len), 0)
    ELSE Panicked(w)

(***************************************************************************)
(* async fn write (lib.rs)                                                 *)
(***************************************************************************)

\* write(output, state, buf, msg): the future before its first poll
AsyncWriteNew(msg, buf, state) == Machine("async", "Start", 0, 0, msg, buf, state)

AsyncWriteWants(w) ==
    IF w.tag = "Hdr" /\ w.off < 2 THEN Slice(ToLeBytes(AsU16(w.len)), w.off, 2)
    ELSE IF w.tag = "Body" /\ w.off < w.len THEN Slice(w.buf, w.off, w.len)
    ELSE <<>>

\* write_all: one poll_write, which io answers
WriteAllStep(w, io) ==
    IF io.k = "Ok" /\ io.n = 0
    THEN StepRes([w EXCEPT !.tag = "Returned"], RetErr(Err("Io", 1, 0)), 0)
    ELSE IF io.k = "Ok" THEN StepRes([w EXCEPT !.off = w.off + io.n], RetContinue, io.n)
    ELSE IF io.k = "Err" THEN StepRes([w EXCEPT !.tag = "Returned"], RetErr(IoErr), 0)
    ELSE StepRes(w, RetPending, 0)

\* the code of write up to its next stream call
AsyncWriteStep(w, io) ==
    IF w.tag = "Start" THEN
        IF MsgTooLong(w.msg)
        THEN StepRes([w EXCEPT !.tag = "Returned"],
                     RetErr(Err("InvalidSize", MSG_MAX_LEN, Len(w.msg))), 0)
        ELSE IF Len(w.msg) + NOISE_OVERHEAD > Len(w.buf)
        THEN StepRes([w EXCEPT !.tag = "Returned"],
                     RetErr(Err("BufferSize", Len(w.msg) + NOISE_OVERHEAD, Len(w.buf))), 0)
        ELSE LET r == WriteMessage(w.state, w.msg, Len(w.buf)) IN
             IF r.ok
             THEN StepRes([w EXCEPT !.tag = "Hdr", !.len = r.n, !.off = 0,
                                    !.buf = WriteAt(w.buf, 0, r.out), !.state = r.state],
                          RetContinue, 0)
             ELSE StepRes([w EXCEPT !.tag = "Returned"], RetErr(r.err), 0)
    ELSE IF w.tag = "Hdr" THEN
        IF w.off >= 2 THEN StepRes([w EXCEPT !.tag = "Body", !.off = 0], RetContinue, 0)
        ELSE WriteAllStep(w, io)
    ELSE IF w.tag = "Body" THEN
        IF w.off >= w.len
        THEN StepRes([w EXCEPT !.tag = "Returned"], RetOk(w.len + 2), 0)
        ELSE WriteAllStep(w, io)
    ELSE Panicked(w)

\* the Frame Writer in either form
WriteWants(w) == IF w.impl = "poll" THEN PollWriteWants(w) ELSE AsyncWriteWants(w)

\* a Writer that starts the frame over when it is polled after a failure
WriteStepStartsOver(w, io) ==
    IF w.impl = "poll"
    THEN PollWriteStep([w EXCEPT !.tag = IF @ = "Done" /\ w.len = 0 THEN "Prepare" ELSE @], io)
    ELSE AsyncWriteStep(w, io)

\* a Writer that has used a nonce when it rejects a payload for its size
WriteStepRejectsLate(w, io) ==
    Once(LAMBDA r : IF r.ret.k = "Err" /\ r.ret.e.kind \in {"MessageSize", "InvalidSize"}
                    THEN [r EXCEPT !.m.state.sn = @ + 1] ELSE r,
         IF w.impl = "poll" THEN PollWriteStep(w, io) ELSE AsyncWriteStep(w, io))

WriteStep(w, io) == IF w.impl = "poll" THEN PollWriteStep(w, io) ELSE AsyncWriteStep(w, io)

(***************************************************************************)
(* Frame Reader (read.rs)                                                  *)
(***************************************************************************)

\* Read::new
ReadNew(msg, buf, state) == Machine("poll", "Peek", 0, 0, msg, buf, state)

\* a reader that offers buf[0..2] to every read of the header
PollReadWantsWholeHeader(r) ==
    IF r.tag = "Peek" /\ Len(r.buf) >= 2 THEN [op |-> "peek", n |-> 2]
    ELSE IF /\ r.tag = "Advance"
            /\ ~RawTooLong(r.len)
            /\ r.len >= NOISE_OVERHEAD
            /\ r.len - NOISE_OVERHEAD <= Len(r.msg)
            /\ r.len <= Len(r.buf)
            /\ r.off < 2
    THEN [op |-> "read", n |-> 2]
    ELSE IF r.tag = "Read" /\ r.off < r.len THEN [op |-> "read", n |-> r.len - r.off]
    ELSE [op |-> "none", n |-> 0]

\* the stream call of the next step: [op, n], n the length of the slice
\* offered to poll_peek or poll_read
PollReadWants(r) ==
    IF r.tag = "Peek" /\ Len(r.buf) >= 2 THEN [op |-> "peek", n |-> 2]
    ELSE IF /\ r.tag = "Advance"
            /\ ~RawTooLong(r.len)
            /\ r.len >= NOISE_OVERHEAD
            /\ r.len - NOISE_OVERHEAD <= Len(r.msg)
            /\ r.len <= Len(r.buf)
            /\ r.off < 2
    THEN [op |-> "read", n |-> 2 - r.off]
    ELSE IF r.tag = "Read" /\ r.off < r.len THEN [op |-> "read", n |-> r.len - r.off]
    ELSE [op |-> "none", n |-> 0]

\* a Reader that reads the frame into the buffers as they are
PollReadStepNoGrowth(r, io) ==
    IF r.tag = "Peek" THEN
        \* buf.as_mut()[0..2]
        IF Len(r.buf) < 2 THEN Panicked(r)
        ELSE IF io.k = "Ok" /\ io.n = 2
        THEN StepRes([r EXCEPT !.tag = "Advance", !.len = FromLeBytes(io.data[1], io.data[2]),
                               !.off = 0, !.buf = WriteAt(r.buf, 0, io.data)],
                     RetContinue, 0)
        ELSE IF io.k = "Ok" THEN Panicked(r)
        ELSE IF io.k = "Err"
        THEN StepRes([r EXCEPT !.tag = "Done", !.len = 0], RetErr(IoErr), 0)
        ELSE StepRes(r, RetPending, 0)
    ELSE IF r.tag = "Advance" THEN
        IF RawTooLong(r.len)
        THEN StepRes([r EXCEPT !.tag = "Done", !.len = 0],
                     RetErr(Err("MessageSize", RAW_MAX_LEN, r.len)), 0)
        \* len - NOISE_OVERHEAD below zero: the subtraction panics, or it
        \* wraps and resize panics on the wrapped size
        ELSE IF r.len < NOISE_OVERHEAD THEN Panicked(r)
        ELSE IF r.off >= 2
        THEN StepRes([r EXCEPT !.tag = "Read", !.off = 0], RetContinue, 0)
        ELSE IF io.k = "Ok"
        THEN StepRes([r EXCEPT !.off = r.off + io.n, !.buf = WriteAt(r.buf, r.off, io.data)],
                     RetContinue, io.n)
        ELSE IF io.k = "Err"
        THEN StepRes([r EXCEPT !.tag = "Done", !.len = 0], RetErr(IoErr), 0)
        ELSE StepRes(r, RetPending, 0)
    ELSE IF r.tag = "Read" THEN
        IF r.off >= r.len
        THEN Once(LAMBDA m :
                 IF m.ok
                 THEN StepRes([r EXCEPT !.tag = "Done", !.len = m.n,
                                        !.msg = WriteAt(r.msg, 0, m.out), !.state = m.state],
                              RetOk(m.n), 0)
                 ELSE StepRes([r EXCEPT !.tag = "Done", !.len = 0], RetErr(m.err), 0),
                 ReadMessage(r.state, Slice(r.buf, 0, r.len), Len(r.msg)))
        ELSE IF io.k = "Ok"
        THEN StepRes([r EXCEPT !.off = r.off + io.n, !.buf = WriteAt(r.buf, r.off, io.data)],
                     RetContinue, io.n)
        ELSE IF io.k = "Err"
        THEN StepRes([r EXCEPT !.tag = "Done", !.len = 0], RetErr(IoErr), 0)
        ELSE StepRes(r, RetPending, 0)
    ELSE IF r.tag = "Done" THEN StepRes(r, RetOk(r.len), 0)
    ELSE Panicked(r)

\* one turn of the loop of Read::poll
PollReadStep(r, io) ==
    IF r.tag = "Peek" THEN
        \* buf.as_mut()[0..2]
        IF Len(r.buf) < 2 THEN Panicked(r)
        ELSE IF io.k = "Ok" /\ io.n = 2
        THEN StepRes([r EXCEPT !.tag = "Advance", !.len = FromLeBytes(io.data[1], io.data[2]),
                               !.off = 0, !.buf = WriteAt(r.buf, 0, io.data)],
                     RetContinue, 0)
        ELSE IF io.k = "Ok" THEN Panicked(r)
        ELSE IF io.k = "Err"
        THEN StepRes([r EXCEPT !.tag = "Done", !.len = 0], RetErr(IoErr), 0)
        ELSE StepRes(r, RetPending, 0)
    ELSE IF r.tag = "Advance" THEN
        IF RawTooLong(r.len)
        THEN StepRes([r EXCEPT !.tag = "Done", !.len = 0],
                     RetErr(Err("MessageSize", RAW_MAX_LEN, r.len)), 0)
        \* len - NOISE_OVERHEAD below zero: the subtraction panics, or it
        \* wraps and resize panics on the wrapped size
        ELSE IF r.len < NOISE_OVERHEAD THEN Panicked(r)
        ELSE IF r.len - NOISE_OVERHEAD > Len(r.msg)
        THEN StepRes([r EXCEPT !.msg = Resize(r.msg, r.len - NOISE_OVERHEAD)], RetContinue, 0)
        ELSE IF r.len > Len(r.buf)
        THEN StepRes([r EXCEPT !.buf = Resize(r.buf, r.len)], RetContinue, 0)
        ELSE IF r.off >= 2
        THEN StepRes([r EXCEPT !.tag = "Read", !.off = 0], RetContinue, 0)
        ELSE IF io.k = "Ok"
        THEN StepRes([r EXCEPT !.off = r.off + io.n, !.buf = WriteAt(r.buf, r.off, io.data)],
                     RetContinue, io.n)
        ELSE IF io.k = "Err"
        THEN StepRes([r EXCEPT !.tag = "Done", !.len = 0], RetErr(IoErr), 0)
        ELSE StepRes(r, RetPending, 0)
    ELSE IF r.tag = "Read" THEN
        IF r.off >= r.len
        THEN Once(LAMBDA m :
                 IF m.ok
                 THEN StepRes([r EXCEPT !.tag = "Done", !.len = m.n,
                                        !.msg = WriteAt(r.msg, 0, m.out), !.state = m.state],
                              RetOk(m.n), 0)
                 ELSE StepRes([r EXCEPT !.tag = "Done", !.len = 0], RetErr(m.err), 0),
                 ReadMessage(r.state, Slice(r.buf, 0, r.len), Len(r.msg)))
        ELSE IF io.k = "Ok"
        THEN StepRes([r EXCEPT !.off = r.off + io.n, !.buf = WriteAt(r.buf, r.off, io.data)],
                     RetContinue, io.n)
        ELSE IF io.k = "Err"
        THEN StepRes([r EXCEPT !.tag = "Done", !.len = 0], RetErr(IoErr), 0)
        ELSE StepRes(r, RetPending, 0)
    ELSE IF r.tag = "Done" THEN StepRes(r, RetOk(r.len), 0)
    ELSE Panicked(r)

(***************************************************************************)
(* async fn read (lib.rs)                                                  *)
(***************************************************************************)

\* read(input, state, buf, msg): the future before its first poll
AsyncReadNew(msg, buf, state) == Machine("async", "Start", 0, 0, msg, buf, state)

AsyncReadWants(r) ==
    IF r.tag = "Start" /\ Len(r.buf) >= 2 THEN [op |-> "peek", n |-> 2]
    ELSE IF r.tag = "Hdr" /\ r.off < 2 THEN [op |-> "read", n |-> 2 - r.off]
    ELSE IF r.tag = "Body" /\ r.off < r.len THEN [op |-> "read", n |-> r.len - r.off]
    ELSE [op |-> "none", n |-> 0]

\* read_exact: one poll_read, which io answers
ReadExactStep(r, io) ==
    IF io.k = "Ok" /\ io.n = 0
    THEN StepRes([r EXCEPT !.tag = "Returned"], RetErr(Err("Io", 2, 0)), 0)
    ELSE IF io.k = "Ok"
    THEN StepRes([r EXCEPT !.off = r.off + io.n, !.buf = WriteAt(r.buf, r.off, io.data)],
                 RetContinue, io.n)
    ELSE IF io.k = "Err" THEN StepRes([r EXCEPT !.tag = "Returned"], RetErr(IoErr), 0)
    ELSE StepRes(r, RetPending, 0)

\* the checks of read between the peek and the first read_exact; wrap: an
\* integer overflow wraps around (it panics otherwise)
AsyncReadChecks(r, len, wrap) ==
    IF RawTooLong(len)
    THEN StepRes([r EXCEPT !.tag = "Returned"],
                 RetErr(Err("InvalidSize", RAW_MAX_LEN, len)), 0)
    ELSE IF len < NOISE_OVERHEAD /\ ~wrap THEN Panicked(r)
    ELSE IF (len < NOISE_OVERHEAD \/ len - NOISE_OVERHEAD > Len(r.msg)) /\ ~r.state.hs
    THEN StepRes([r EXCEPT !.tag = "Returned"],
                 RetErr(Err("BufferSize", len - NOISE_OVERHEAD, Len(r.msg))), 0)
    ELSE IF len > Len(r.buf)
    THEN StepRes([r EXCEPT !.tag = "Returned"], RetErr(Err("BufferSize", len, Len(r.buf))), 0)
    ELSE StepRes([r EXCEPT !.tag = "Hdr", !.len = len, !.off = 0], RetContinue, 0)

\* the code of read up to its next stream call
AsyncReadStep(r, io, wrap) ==
    IF r.tag = "Start" THEN
        \* &mut buf[0..2]
        IF Len(r.buf) < 2 THEN Panicked(r)
        ELSE IF io.k = "Ok" /\ io.n = 2
        THEN AsyncReadChecks([r EXCEPT !.buf = WriteAt(r.buf, 0, io.data)],
                             FromLeBytes(io.data[1], io.data[2]), wrap)
        ELSE IF io.k = "Ok" THEN Panicked(r)
        ELSE IF io.k = "Err" THEN StepRes([r EXCEPT !.tag = "Returned"], RetErr(IoErr), 0)
        ELSE StepRes(r, RetPending, 0)
    ELSE IF r.tag = "Hdr" THEN
        IF r.off >= 2 THEN StepRes([r EXCEPT !.tag = "Body", !.off = 0], RetContinue, 0)
        ELSE ReadExactStep(r, io)
    ELSE IF r.tag = "Body" THEN
        IF r.off >= r.len
        THEN LET m == ReadMessage(r.state, Slice(r.buf, 0, r.len), Len(r.msg)) IN
             IF m.ok
             THEN StepRes([r EXCEPT !.tag = "Returned", !.len = m.n,
                                    !.msg = WriteAt(r.msg, 0, m.out), !.state = m.state],
                          RetOk(m.n), 0)
             ELSE StepRes([r EXCEPT !.tag = "Returned"], RetErr(m.err), 0)
        ELSE ReadExactStep(r, io)
    ELSE Panicked(r)

\* the Frame Reader in either form
ReadWants(r) == IF r.impl = "poll" THEN PollReadWants(r) ELSE AsyncReadWants(r)

ReadStep(r, io, wrap) ==
    IF r.impl = "poll" THEN PollReadStep(r, io) ELSE AsyncReadStep(r, io, wrap)

(***************************************************************************)
(* The stream (AsyncPeek, AsyncRead, AsyncWrite): what one call may answer *)
(***************************************************************************)

Io(k, n, data) == [k |-> k, n |-> n, data |-> data]

IoNone == Io("None", 0, <<>>)

\* partial transfers of a call that could transfer up to n bytes
PartialSizes(n) == 1..Min(MaxChunk, n - 1)

\* poll_write of the bytes req; partial, fault: the stream may still
\* transfer only a part, may still fail
PollWriteOutcomes(req, partial, fault) ==
    IF req = <<>> THEN {IoNone} ELSE
    {Io("Pending", 0, <<>>), Io("Ok", Len(req), <<>>)}
    \cup (IF partial THEN {Io("Ok", n, <<>>) : n \in PartialSizes(Len(req))} ELSE {})
    \cup (IF fault THEN {Io("Err", 0, <<>>), Io("Ok", 0, <<>>)} ELSE {})

\* poll_peek or poll_read into a slice of want.n bytes when the stream holds
\* the bytes w; closed: no byte will follow them
PollReadOutcomes(want, w, closed, partial, fault) ==
    IF want.op = "none" THEN {IoNone} ELSE
    LET most == Min(want.n, Len(w)) IN
    {Io("Pending", 0, <<>>)}
    \cup (IF most > 0 THEN {Io("Ok", most, SubSeq(w, 1, most))} ELSE {})
    \cup (IF partial THEN {Io("Ok", n, SubSeq(w, 1, n)) : n \in PartialSizes(most)} ELSE {})
    \cup (IF closed /\ w = <<>> THEN {Io("Ok", 0, <<>>)} ELSE {})
    \cup (IF fault THEN {Io("Err", 0, <<>>)} ELSE {})

\* a call answered with fewer bytes than it could have transferred
IsPartial(io, most) == io.k = "Ok" /\ io.n > 0 /\ io.n < most

IsFault(io) == io.k = "Err"

(***************************************************************************)
(* Frame specification: one Frame Writer and one Frame Reader, in the same *)
(* form, on the two ends of a stream, with paired transport-phase states.  *)
(***************************************************************************)

\* the scratch buffer of a handshake (initiate.rs:95, respond.rs:94, lib.rs:154)
HANDSHAKE_BUF_LEN == 72

\* payloads: one for each length
PayloadOf(n) == [i \in 1..n |-> (i * i + n) % ByteBase]

FrameLens == {0, 1, HelloLen, MSG_MAX_LEN - 1, MSG_MAX_LEN, MSG_MAX_LEN + 1}

Impls == {"poll", "async"}

\* the states of two peers after a handshake
PairedWriter == Transport(TRUE, 1, 2, 0, 0)
PairedReader == Transport(FALSE, 2, 1, 0, 0)

\* the state of a Writer that has used every nonce of its key
ExhaustedWriter == Transport(TRUE, 1, 2, ExhaustedNonce, 0)

\* polls of a Writer after it has failed
MaxAgain == 2

NewWriter(impl, msg, buf, state) ==
    [m |-> IF impl = "poll" THEN WriteNew(msg, buf, state) ELSE AsyncWriteNew(msg, buf, state),
     ret |-> RetContinue, put |-> <<>>, called |-> FALSE, again |-> 0, late |-> RetContinue]

NewReader(impl, msg, buf, state) ==
    [m |-> IF impl = "poll" THEN ReadNew(msg, buf, state) ELSE AsyncReadNew(msg, buf, state),
     ret |-> RetContinue, eaten |-> 0, called |-> FALSE, short |-> FALSE]

ProtoIdle == pr = <<>> /\ net = <<>> /\ penv = <<>>

HsIdle == eng = <<>> /\ chan = <<>> /\ henv = <<>>

FrameInit ==
    /\ codec = <<>> /\ ProtoIdle /\ HsIdle
    /\ \E impl \in Impls, n \in FrameLens, small \in BOOLEAN, worn \in BOOLEAN :
        /\ fw = NewWriter(impl, PayloadOf(n),
                          Zeros(IF small THEN HANDSHAKE_BUF_LEN ELSE RAW_MAX_LEN),
                          IF worn THEN ExhaustedWriter ELSE PairedWriter)
        /\ fr = NewReader(impl, Zeros(IF small THEN 0 ELSE MSG_MAX_LEN),
                          Zeros(IF small THEN HANDSHAKE_BUF_LEN ELSE RAW_MAX_LEN), PairedReader)
        /\ wire = <<>>
        /\ fenv = [payload |-> PayloadOf(n), partials |-> 0, faults |-> 0,
                   closed |-> FALSE, adv |-> IF worn THEN "worn" ELSE "none", sent |-> <<>>,
                   next |-> <<>>]

Running(x) == x.ret.k \in {"Continue", "Pending"}

\* one step of the Frame Writer
FrameWrite ==
    /\ Running(fw)
    /\ LET req == WriteWants(fw.m) IN
       \E io \in PollWriteOutcomes(req, fenv.partials < MaxPartial, fenv.faults < MaxFault) :
         LET r == WriteStep(fw.m, io) IN
         /\ ~(fenv.closed /\ io.k = "Ok")
         /\ fw' = [m |-> r.m, ret |-> r.ret,
                   put |-> fw.put \o SubSeq(req, 1, r.n),
                   called |-> fw.called \/ req # <<>>,
                   again |-> fw.again, late |-> fw.late]
         /\ wire' = wire \o SubSeq(req, 1, r.n)
         /\ fenv' = [fenv EXCEPT
                       !.partials = @ + (IF IsPartial(io, Len(req)) THEN 1 ELSE 0),
                       !.faults = @ + (IF IsFault(io) \/ (io.k = "Ok" /\ io.n = 0) THEN 1 ELSE 0)]
    /\ UNCHANGED <<codec, protoVars, hsVars, fr>>

\* the caller polls the Frame Writer again after it has failed; late: what
\* this poll returns
FrameWriteAgain ==
    /\ fw.ret.k = "Err" /\ fw.again < MaxAgain
    /\ LET req == WriteWants(fw.m) IN
       \E io \in PollWriteOutcomes(req, TRUE, FALSE) :
         LET r == WriteStep(fw.m, io) IN
         /\ fw' = [fw EXCEPT !.m = r.m, !.put = @ \o SubSeq(req, 1, r.n),
                              !.called = @ \/ req # <<>>,
                              !.again = @ + 1, !.late = r.ret]
         /\ wire' = wire \o SubSeq(req, 1, r.n)
    /\ UNCHANGED <<codec, protoVars, hsVars, fr, fenv>>

\* one step of the Frame Reader
FrameRead ==
    /\ Running(fr)
    /\ LET want == ReadWants(fr.m) IN
       \E io \in PollReadOutcomes(want, wire, fenv.closed, fenv.partials < MaxPartial,
                                  fenv.faults < MaxFault),
          wrap \in BOOLEAN :
         LET r == ReadStep(fr.m, io, wrap)
             took == IF want.op = "read" /\ io.k = "Ok" THEN io.n ELSE 0
         IN
         /\ fr' = [m |-> r.m, ret |-> r.ret, eaten |-> fr.eaten + took,
                   called |-> fr.called \/ want.op # "none",
                   short |-> fr.short \/ (want.op = "peek" /\ io.k = "Ok" /\ io.n < 2)]
         /\ wire' = SubSeq(wire, took + 1, Len(wire))
         /\ fenv' = [fenv EXCEPT
                       !.partials = @ + (IF IsPartial(io, Min(want.n, Len(wire))) THEN 1 ELSE 0),
                       !.faults = @ + (IF IsFault(io) THEN 1 ELSE 0)]
    /\ UNCHANGED <<codec, protoVars, hsVars, fw>>

\* the peer closes the stream: no byte follows those already sent
FrameClose ==
    /\ ~fenv.closed
    /\ fenv' = [fenv EXCEPT !.closed = TRUE]
    /\ UNCHANGED <<codec, protoVars, hsVars, fw, fr, wire>>

\* a frame with its length header
Framed(body) == ToLeBytes(AsU16(Len(body))) \o body

\* the frame the peer sends next, under the following nonce
FollowingFrame == Framed(Encrypt(PairedWriter.sk, PairedWriter.sn + 1, 0, PayloadOf(1)))

\* the peer's next frame arrives on the stream behind the Writer's frame
FrameFollow ==
    /\ fenv.adv = "none" /\ ~fenv.closed
    /\ fw.ret.k = "Ok" /\ fenv.next = <<>>
    /\ wire' = wire \o FollowingFrame
    /\ fenv' = [fenv EXCEPT !.next = FollowingFrame]
    /\ UNCHANGED <<codec, protoVars, hsVars, fw, fr>>

\* s with the byte at position i replaced by another one
Altered(s, i) == [s EXCEPT ![i] = (@ + 1) % ByteBase]

\* headers announcing more than RAW_MAX_LEN bytes, alone or with a first
\* byte of what follows
OversizeHeaders ==
    {ToLeBytes(L) \o rest : L \in {RAW_MAX_LEN + 1, NOISE_MAX_LEN}, rest \in {<<>>, <<1>>}}

\* frames of well-formed length that do not authenticate under the
\* Reader's key and nonce: sealed under another key, sealed under another
\* nonce, or the Writer's frame with one byte of the ciphertext or of the
\* tag altered
ForgedFrames(payload) ==
    LET good == Encrypt(PairedWriter.sk, PairedWriter.sn, 0, payload) IN
    {Framed(Encrypt(PairedWriter.sk + 2, PairedWriter.sn, 0, payload)),
     Framed(Encrypt(PairedWriter.sk, PairedWriter.sn + 1, 0, payload)),
     Framed(Altered(good, 1)),
     Framed(Altered(good, Len(good)))}

\* instead of the Writer, somebody else sends bytes to the Reader
FrameInject ==
    /\ fenv.adv = "none" /\ ~fenv.closed
    /\ fw.ret.k = "Continue" /\ fw.put = <<>> /\ wire = <<>> /\ ~fr.called
    /\ \E kind \in {"oversize", "forged"} :
        \E bytes \in (IF kind = "oversize" THEN OversizeHeaders
                       ELSE IF Len(fenv.payload) <= MSG_MAX_LEN
                       THEN ForgedFrames(fenv.payload) ELSE {}) :
          /\ wire' = bytes
          /\ fenv' = [fenv EXCEPT !.adv = kind, !.sent = bytes]
    /\ fw' = [fw EXCEPT !.ret = Ret("Off", 0, NoErr)]
    /\ UNCHANGED <<codec, protoVars, hsVars, fr>>

FrameNext ==
    FrameWrite \/ FrameRead \/ FrameClose \/ FrameInject \/ FrameFollow \/ FrameWriteAgain

SpecFrame == FrameInit /\ [][FrameNext]_vars

SizeErrors == {"MessageSize", "InvalidSize"}

\* C3: for a payload of at most MSG_MAX_LEN bytes, on a stream that
\* reports no failure, the Frame Writer of write.rs produces the frame of
\* the payload and does not fail, the Frame Reader of read.rs does not fail
\* on it, and a Frame Reader (of either form) that succeeds with the paired
\* Noise state reports the length of the payload and holds exactly the
\* bytes of the payload at the head of its plaintext buffer.
C3_FrameRoundTrip ==
    (fenv.adv = "none" /\ fenv.faults = 0 /\ Len(fenv.payload) <= MSG_MAX_LEN) =>
        /\ fw.m.impl = "poll" => fw.ret.k # "Err" /\ fr.ret.k # "Err"
        /\ fw.ret.k = "Ok" =>
              /\ fw.put = Framed(Encrypt(PairedWriter.sk, PairedWriter.sn, 0, fenv.payload))
              /\ fw.ret.n = Len(fenv.payload) + NOISE_OVERHEAD + LEN_OVERHEAD
        /\ fr.ret.k = "Ok" =>
              /\ fr.ret.n = Len(fenv.payload)
              /\ Slice(fr.m.msg, 0, fr.ret.n) = fenv.payload

C3_Witness ==
    /\ fr.m.impl = "poll" /\ fr.ret.k = "Ok" /\ fr.ret.n = MSG_MAX_LEN
    /\ Len(fenv.payload) = MSG_MAX_LEN /\ fenv.partials > 0 /\ fenv.adv = "none"

\* C5: a Frame Writer (of either form) given a payload longer than
\* MSG_MAX_LEN never makes a write call and never puts a byte on the
\* stream, and once it has been polled it has completed with a size error
\* that names MSG_MAX_LEN and the length of the payload.
C5_OversizeRejected ==
    (Len(fenv.payload) > MSG_MAX_LEN /\ fenv.adv = "none") =>
        /\ ~fw.called /\ fw.put = <<>> /\ wire = <<>>
        /\ fw.ret.k \in {"Continue", "Err"}
        /\ fw.ret.k = "Err" =>
              /\ fw.ret.e.kind \in SizeErrors
              /\ fw.ret.e.a = MSG_MAX_LEN /\ fw.ret.e.b = Len(fenv.payload)

C5_Witness ==
    /\ Len(fenv.payload) = MSG_MAX_LEN + 1 /\ fw.ret.k = "Err"
    /\ fw.m.impl = "poll" /\ fw.ret.e.kind = "MessageSize" /\ fw.put = <<>>

\* C6: when the bytes at the head of the stream are a length header above
\* RAW_MAX_LEN, a Frame Reader (of either form) never consumes a byte, so the
\* stream still holds everything that was sent from the header on; it never
\* succeeds, and when the stream reports no failure and the peek returned
\* the whole header, it fails with a size error that names RAW_MAX_LEN and
\* the declared length.
C6_OversizeHeader ==
    fenv.adv = "oversize" =>
        /\ fr.eaten = 0 /\ wire = fenv.sent
        /\ fr.ret.k # "Ok"
        /\ (fr.ret.k \notin {"Continue", "Pending"} /\ fenv.faults = 0 /\ ~fr.short) =>
              /\ fr.ret.k = "Err" /\ fr.ret.e.kind \in SizeErrors
              /\ fr.ret.e.a = RAW_MAX_LEN
              /\ fr.ret.e.b = FromLeBytes(fenv.sent[1], fenv.sent[2])

C6_Witness ==
    /\ fenv.adv = "oversize" /\ fr.ret.k = "Err" /\ fr.ret.e.kind = "MessageSize"
    /\ fr.ret.e.b = RAW_MAX_LEN + 1 /\ fr.called /\ wire = fenv.sent

\* C7: a Frame Reader whose peek of the length header returned fewer than 2
\* bytes has completed with an error value.
C7_ShortPeekIsError == fr.short => fr.ret.k = "Err"

WriterFrame == Framed(Encrypt(PairedWriter.sk, PairedWriter.sn, 0, fenv.payload))

\* C23: whatever partial sizes and Pending results the output answers with,
\* the bytes it has accepted from a Frame Writer (of either form) are at
\* every moment a prefix of the 2-byte header followed by the ciphertext,
\* each byte once and in order, and the Writer reports success only when
\* the whole frame has been accepted, with the value len + 2.
C23_AcceptedBytesAreTheFrame ==
    (fenv.adv = "none" /\ Len(fenv.payload) <= MSG_MAX_LEN) =>
        /\ Len(fw.put) <= Len(WriterFrame)
        /\ fw.put = SubSeq(WriterFrame, 1, Len(fw.put))
        /\ fw.ret.k = "Ok" =>
              /\ fw.put = WriterFrame
              /\ fw.ret.n = Len(fw.put)
              /\ fw.ret.n = FromLeBytes(fw.put[1], fw.put[2]) + LEN_OVERHEAD

C23_Witness ==
    /\ fw.m.impl = "poll" /\ fw.ret.k = "Ok" /\ fenv.adv = "none"
    /\ Len(fenv.payload) = HelloLen /\ fw.put = WriterFrame
    /\ ~fr.called /\ fenv.partials = MaxPartial /\ fenv.faults = 0

\* the bytes sent to the Reader: the Writer's, or the injected ones
SentFrame == IF fenv.adv = "none" THEN fw.put ELSE fenv.sent

\* C24: however the input is cut into partial reads and Pending results, a
\* Frame Reader (of either form) has never consumed more than the L + 2
\* bytes of the frame at the head of the stream, a Reader that succeeded
\* has consumed exactly these and has left the bytes of the following frame
\* on the stream, and the bytes it gave to decryption (successful or not)
\* are the L bytes behind the header, in the order of the stream.
C24_ReaderConsumesOneFrame ==
    /\ fenv.adv = "none" => fr.eaten <= Len(fw.put)
    /\ fr.ret.k = "Ok" =>
          /\ fr.eaten = FromLeBytes(SentFrame[1], SentFrame[2]) + LEN_OVERHEAD
          /\ fr.eaten = Len(SentFrame)
          /\ wire = fenv.next
    /\ (fr.ret.k = "Ok" \/ (fr.ret.k = "Err" /\ fr.ret.e.kind = "Noise")) =>
          /\ fr.eaten = Len(SentFrame)
          /\ Slice(fr.m.buf, 0, fr.eaten - LEN_OVERHEAD) = SubSeq(SentFrame, 3, fr.eaten)

C24_Witness ==
    /\ fr.m.impl = "poll" /\ fr.ret.k = "Ok" /\ fenv.adv = "none"
    /\ Len(fenv.payload) = HelloLen /\ fr.eaten = HelloLen + MSG_OVERHEAD
    /\ fenv.next = FollowingFrame /\ wire = FollowingFrame /\ fenv.partials = MaxPartial

\* C28: from the moment a Frame Writer (of either form) has failed with an
\* I/O error or with a Noise error of write_message, no step, however
\* often the Writer is polled again, offers or writes a byte of the frame
\* and none encrypts: the bytes accepted from the Writer, its Noise state
\* and its ciphertext buffer stay as the failure left them.
C28_FailedWriterIsTerminal ==
    [][(fenv # <<>> /\ fw.ret.k = "Err" /\ fw.ret.e.kind \in {"Io", "Noise"}) =>
          /\ WriteWants(fw.m) = <<>>
          /\ fw'.put = fw.put /\ fw'.called = fw.called
          /\ Len(wire') <= Len(wire)
          /\ fw'.m.state = fw.m.state /\ fw'.m.buf = fw.m.buf
          /\ fw'.ret = fw.ret]_vars

\* a Write of write.rs that failed with an I/O error in the middle of the
\* frame and has been polled MaxAgain times since
C28_Witness ==
    /\ fw.m.impl = "poll" /\ fw.ret.k = "Err" /\ fw.ret.e.kind = "Io"
    /\ fw.again = MaxAgain /\ fw.put # <<>> /\ Len(fw.put) < Len(WriterFrame)
    /\ fw.late = RetOk(0) /\ fw.m.state.sn = PairedWriter.sn + 1

\* the Read of read.rs stands at or behind the first read of a frame of
\* well-formed length: it waits for the header bytes, has taken some, or
\* is in the stage of the body
AtFrameRead(r, ret) ==
    /\ r.impl = "poll" /\ r.len >= NOISE_OVERHEAD /\ ~RawTooLong(r.len)
    /\ \/ r.tag = "Read"
       \/ r.tag = "Advance" /\ (ret.k = "Pending" \/ r.off > 0)

\* C29: the Read of read.rs, from its first read of a frame with
\* 16 <= L <= RAW_MAX_LEN on, holds a ciphertext buffer of at least L bytes
\* and a plaintext buffer of at least L - 16 bytes, whatever their lengths
\* were when it was built; once it has taken a byte from the stream it
\* does not panic, and it fails with a Noise error only on a frame that
\* does not authenticate.
C29_ReaderGrowsBuffersFirst ==
    fr.m.impl = "poll" =>
        /\ AtFrameRead(fr.m, fr.ret) =>
              /\ Len(fr.m.buf) >= fr.m.len
              /\ Len(fr.m.msg) >= fr.m.len - NOISE_OVERHEAD
        /\ fr.eaten > 0 => fr.ret.k # "Panic"
        /\ (fr.ret.k = "Err" /\ fr.ret.e.kind = "Noise") => fenv.adv = "forged"

\* a Read built with an empty msg and a buf of 72 bytes in the body of the
\* frame of a Hello: buf has grown to L = 148, msg to 132
C29_Witness ==
    /\ fr.m.impl = "poll" /\ fr.m.tag = "Read" /\ fr.m.off > 0 /\ fr.m.off < fr.m.len
    /\ fr.m.len = HelloLen + NOISE_OVERHEAD
    /\ Len(fr.m.buf) = HelloLen + NOISE_OVERHEAD /\ Len(fr.m.msg) = HelloLen

(***************************************************************************)
(* Codec specification: one packet is encoded into a buffer, then a prefix *)
(* of the buffer is decoded as one of the packet types.                    *)
(***************************************************************************)

CodecPackets == {Heartbeat} \cup HelloPackets

\* the lengths at which a field of a Hello ends, and one less
FieldEdges ==
    {HEARTBEAT_LEN + PUBLIC_KEY_LEN - 1, HEARTBEAT_LEN + PUBLIC_KEY_LEN,
     HEARTBEAT_LEN + PUBLIC_KEY_LEN + HASH_LEN - 1, HEARTBEAT_LEN + PUBLIC_KEY_LEN + HASH_LEN}

CodecBufLens ==
    (0..(HEARTBEAT_LEN + 1)) \cup FieldEdges \cup ((HelloLen - 1)..(HelloLen + 1))

CodecCuts(n, len) ==
    {c \in (0..HEARTBEAT_LEN) \cup FieldEdges \cup {n - 1, n, len} : c >= 0 /\ c <= len}

FrameIdle == fw = <<>> /\ fr = <<>> /\ wire = <<>> /\ fenv = <<>>

CodecInit ==
    /\ FrameIdle /\ ProtoIdle /\ HsIdle
    /\ \E p \in CodecPackets, n \in CodecBufLens, f \in {0, ByteBase - 1} :
        codec = [pc |-> "new", pkt |-> p, buf |-> [i \in 1..n |-> f],
                 enc |-> EncErr(<<>>, NoErr), as |-> "", cut |-> 0,
                 dec |-> DecErr(NoErr)]

CodecEncode ==
    /\ codec.pc = "new"
    /\ codec' = [codec EXCEPT !.pc = "encoded", !.enc = Encode(codec.pkt, codec.buf)]
    /\ UNCHANGED <<frameVars, protoVars, hsVars>>

CodecDecode ==
    /\ codec.pc = "encoded"
    /\ \E P \in PacketIds, c \in CodecCuts(codec.enc.n, Len(codec.enc.buf)) :
          codec' = [codec EXCEPT !.pc = "decoded", !.as = P, !.cut = c,
                                 !.dec = Decode(P, SubSeq(codec.enc.buf, 1, c))]
    /\ UNCHANGED <<frameVars, protoVars, hsVars>>

\* id numbers in the first two bytes of a buffer that was not encoded here
ForeignIds == {0, 1, 2, ByteBase, U16Mod - 1}

\* decode is handed bytes of another origin: the encoding with other bytes
\* in the place of the id
CodecDecodeForeign ==
    /\ codec.pc = "encoded" /\ Len(codec.enc.buf) >= 2
    /\ \E P \in PacketIds, c \in CodecCuts(codec.enc.n, Len(codec.enc.buf)), x \in ForeignIds :
          \E b \in {WriteAt(codec.enc.buf, 0, ToLeBytes(x))} :
            codec' = [codec EXCEPT !.pc = "foreign", !.as = P, !.cut = c, !.buf = b,
                                   !.dec = Decode(P, SubSeq(b, 1, c))]
    /\ UNCHANGED <<frameVars, protoVars, hsVars>>

CodecNext == CodecEncode \/ CodecDecode \/ CodecDecodeForeign

SpecCodec == CodecInit /\ [][CodecNext]_vars

\* C4: decoding what encode produced, as the type that was encoded, returns
\* the packet that was encoded and consumes as many bytes as encode reported
\* writing, whatever follows the encoding in the buffer.
C4_RoundTrip ==
    (codec.pc = "decoded" /\ codec.enc.ok /\ codec.as = codec.pkt.id
        /\ codec.cut >= codec.enc.n)
    => codec.dec = DecOk(codec.pkt, codec.enc.n)

C4_Witness ==
    /\ codec.pc = "decoded" /\ codec.enc.ok /\ codec.pkt.id = "Hello"
    /\ codec.as = "Hello" /\ codec.cut > codec.enc.n /\ codec.dec.ok

\* C20: a decode of a concrete packet type from a buffer of at least two
\* bytes whose first two bytes are not that type's id fails: with the
\* tag-mismatch error naming the id found when they are the id of another
\* type, with the unknown-id error naming the number found when they are no
\* id, whatever bytes follow and however many.
C20_IdDecodedFirst ==
    (codec.pc = "foreign" /\ codec.cut >= 2) =>
        LET x == FromLeBytes(codec.buf[1], codec.buf[2]) IN
        /\ PacketIdOf(x) = "" => codec.dec = DecErr(Err("UnknownPacketId", x, 0))
        /\ (PacketIdOf(x) # "" /\ PacketIdOf(x) # codec.as) =>
              codec.dec = DecErr(Err("PacketId", x, 0))

\* a complete, valid Hello body behind the id of a Heartbeat, decoded as Hello
C20_Witness ==
    /\ codec.pc = "foreign" /\ codec.as = "Hello" /\ codec.pkt.id = "Hello"
    /\ codec.enc.ok /\ codec.cut = codec.enc.n
    /\ codec.dec = DecErr(Err("PacketId", 0, 0))

\* the number of bytes of the encoding of a packet
EncodedLen(p) == IF p.id = "Heartbeat" THEN HEARTBEAT_LEN ELSE HelloLen

\* a buffer-size error raised on a slice that lies in its buffer: the slice
\* has actual >= 0 bytes, fewer than the min asked for
BufferSizeOf(e) == e.kind = "BufferSize" /\ e.b >= 0 /\ e.b < e.a

\* C21: encode into a buffer shorter than the packet's encoding fails with
\* a buffer-size error and leaves the buffer as long as it was; decode, as
\* the packet's type, of a proper prefix of the packet's encoding fails
\* with a buffer-size error; the error is raised on a slice inside the
\* buffer. The lengths include 0.
C21_ShortBufferIsBufferSize ==
    /\ (codec.pc \in {"encoded", "decoded"} /\ Len(codec.buf) < EncodedLen(codec.pkt)) =>
          /\ ~codec.enc.ok /\ BufferSizeOf(codec.enc.err)
          /\ Len(codec.enc.buf) = Len(codec.buf)
    /\ (/\ codec.pc = "decoded" /\ codec.as = codec.pkt.id
        /\ codec.cut < EncodedLen(codec.pkt)
        /\ SubSeq(codec.enc.buf, 1, codec.cut)
             = SubSeq(Encode(codec.pkt, Zeros(HelloLen)).buf, 1, codec.cut)) =>
          ~codec.dec.ok /\ BufferSizeOf(codec.dec.err)

\* a Hello did not fit a buffer that ends behind the key: encode has failed
\* at the hash, and decode of what it has written fails at the hash
C21_Witness ==
    /\ codec.pc = "decoded" /\ codec.pkt.id = "Hello" /\ codec.as = "Hello"
    /\ Len(codec.buf) = HEARTBEAT_LEN + PUBLIC_KEY_LEN /\ codec.cut = Len(codec.buf)
    /\ codec.enc.err = Err("BufferSize", HASH_LEN, 0)
    /\ codec.dec = DecErr(Err("BufferSize", HASH_LEN, 0))

MaxCalls == 4

Sides == {"A", "B"}

Peer(s) == IF s = "A" THEN "B" ELSE "A"

\* the handshake messages exchanged by an initiator with secret ea and a
\* responder with secret eb, and the states both end with
HandshakePair(ea, eb) ==
    LET m1 == WriteMessage(BuildHandshake(TRUE, ea), <<>>, HANDSHAKE_BUF_LEN)
        r1 == ReadMessage(BuildHandshake(FALSE, eb), m1.out, 0)
        m2 == WriteMessage(r1.state, <<>>, HANDSHAKE_BUF_LEN)
        r2 == ReadMessage(m1.state, m2.out, 0)
    IN  [A |-> IntoTransportMode(r2.state).state, B |-> IntoTransportMode(m2.state).state]

\* a Protocol that starts with a cursor over bytes it has not read
HandshakeDoneStale(state) ==
    [buf |-> Zeros(RAW_MAX_LEN), msg |-> Zeros(MSG_MAX_LEN), next |-> HEARTBEAT_LEN,
     state |-> state]

\* Handshake::done
HandshakeDone(state) ==
    [buf |-> Zeros(RAW_MAX_LEN), msg |-> Zeros(MSG_MAX_LEN), next |-> 0, state |-> state]

\* a call of send (pkts), of try_recv::<P> or of peek_packet_id, not yet
\* polled; k0: packets already taken from the pending frame
Call(kind, pkts, P, k0) ==
    [kind |-> kind, pkts |-> pkts, P |-> P, k0 |-> k0, tag |-> "Start", len |-> 0,
     off |-> 0, plen |-> 0, ret |-> RetContinue, val |-> NoPacket, id |-> "",
     called |-> FALSE, read |-> FALSE, out |-> <<>>]

NoCall == [Call("none", <<>>, "", 0) EXCEPT !.tag = "Returned", !.ret = RetOk(0)]

\* impl From<packets::Error> for Error
P4ck375(e) == [e EXCEPT !.kind = IF @ = "BufferSize" THEN "P4ck375BufferSize" ELSE @]

\* several packets encoded one behind the other from buf[off..] on
RECURSIVE EncodeEach(_, _, _)
RECURSIVE EncodeNext(_, _, _, _)
EncodeEach(pkts, buf, off) ==
    IF pkts = <<>> THEN EncOk(off, buf)
    ELSE EncodeNext(pkts, buf, off,
                    IF Head(pkts).id = "Raw"
                    THEN EncodeBytes(Head(pkts).key, Slice(buf, off, Len(buf)), 0)
                    ELSE Encode(Head(pkts), Slice(buf, off, Len(buf))))

\* r: the first packet's encode
EncodeNext(pkts, buf, off, r) ==
    IF ~r.ok THEN EncErr(WriteAt(buf, off, r.buf), r.err)
    ELSE EncodeEach(Tail(pkts), WriteAt(buf, off, r.buf), off + r.n)

\* the code of write from one stream call, answered by io, to the next
RECURSIVE WriteRun(_, _)
RECURSIVE WriteOn(_)
WriteRun(m, io) == WriteOn(AsyncWriteStep(m, io))

\* r: where write stands after a step
WriteOn(r) ==
    IF r.ret.k = "Continue" /\ AsyncWriteWants(r.m) = <<>>
    THEN [WriteRun(r.m, IoNone) EXCEPT !.n = r.n]
    ELSE r

\* the code of read from one stream call, answered by io, to the next
RECURSIVE ReadRun(_, _, _)
RECURSIVE ReadOn(_, _)
ReadRun(m, io, wrap) == ReadOn(AsyncReadStep(m, io, wrap), wrap)

\* r: where read stands after a step
ReadOn(r, wrap) ==
    IF r.ret.k = "Continue" /\ AsyncReadWants(r.m).op = "none"
    THEN ReadRun(r.m, IoNone, wrap)
    ELSE r

\* the future of write as send holds it: msg is the head of self.msg
SendMachine(p, c) == Machine("async", c.tag, c.len, c.off, Slice(p.msg, 0, c.plen), p.buf, p.state)

\* the future of read as peek_packet_id holds it
RecvMachine(p, c) == Machine("async", c.tag, c.len, c.off, p.msg, p.buf, p.state)

Returned(c, ret) == [c EXCEPT !.tag = "Returned", !.ret = ret]

\* send after r, the steps of its write
SendWritten(p, c, r) ==
    [p |-> [p EXCEPT !.buf = r.m.buf, !.state = r.m.state],
     c |-> [c EXCEPT !.tag = r.m.tag, !.len = r.m.len, !.off = r.m.off, !.ret = r.ret],
     n |-> r.n]

SendEncodedWhole(p, c, io, enc) ==
    IF ~enc.ok
    THEN [p |-> [p EXCEPT !.msg = enc.buf], c |-> Returned(c, RetErr(P4ck375(enc.err))),
          n |-> 0]
    ELSE SendWritten([p EXCEPT !.msg = enc.buf], [c EXCEPT !.plen = Len(enc.buf)],
                     WriteRun(Machine("async", c.tag, c.len, c.off, enc.buf, p.buf, p.state),
                              io))

\* send after enc, its packet.encode(&mut self.msg)
SendEncoded(p, c, io, enc) ==
    IF ~enc.ok
    THEN [p |-> [p EXCEPT !.msg = enc.buf], c |-> Returned(c, RetErr(P4ck375(enc.err))),
          n |-> 0]
    ELSE SendWritten([p EXCEPT !.msg = enc.buf], [c EXCEPT !.plen = enc.n],
                     WriteRun(Machine("async", c.tag, c.len, c.off, Slice(enc.buf, 0, enc.n),
                                      p.buf, p.state), io))

\* Protocol::send up to its next stream call: [p, c, n]; a call with
\* several packets is a peer that fills msg with all of them before write
SendStep(p, c, io) ==
    SendEncoded(p, c, io, IF c.tag # "Start" THEN EncOk(c.plen, p.msg)
                          ELSE EncodeEach(c.pkts, p.msg, 0))

\* Write::poll from one stream call, answered by io, to the next
RECURSIVE PollWriteRun(_, _)
RECURSIVE PollWriteOn(_)
PollWriteRun(m, io) == PollWriteOn(PollWriteStep(m, io))

\* r: where the Write stands after a step
PollWriteOn(r) ==
    IF r.ret.k = "Continue" /\ PollWriteWants(r.m) = <<>>
    THEN [PollWriteRun(r.m, IoNone) EXCEPT !.n = r.n]
    ELSE r

\* the Write of a Send (send.rs), as the Send holds it: msg is proto.msg
SendWriteMachine(p, c) == Machine("poll", c.tag, c.len, c.off, p.msg, p.buf, p.state)

\* Send::new: a call of Send with one packet
SendNew(pkts) == [Call("Send", pkts, "", 0) EXCEPT !.tag = "Encode"]

\* stage Encode of Send::poll after enc, its packet.encode(&mut msg) on the
\* resized msg: msg.truncate(bytes), Write::new and the first poll of Write
SendPollEncoded(p, c, io, enc) ==
    IF ~enc.ok
    THEN [p |-> [p EXCEPT !.msg = enc.buf], c |-> Returned(c, RetErr(P4ck375(enc.err))),
          n |-> 0]
    ELSE SendWritten([p EXCEPT !.msg = Slice(enc.buf, 0, enc.n)], [c EXCEPT !.plen = enc.n],
                     PollWriteRun(WriteNew(Slice(enc.buf, 0, enc.n), p.buf, p.state), io))

\* Send::poll up to its next stream call: [p, c, n]
SendPoll(p, c, io) ==
    IF c.tag = "Encode"
    THEN SendPollEncoded(p, c, io, Encode(c.pkts[1], Resize(p.msg, MSG_MAX_LEN)))
    ELSE SendWritten(p, c, PollWriteRun(SendWriteMachine(p, c), io))

RecvDecodedKeep(p, c, id, q) ==
    IF q.ok
    THEN [p |-> [p EXCEPT !.next = p.next - q.n],
          c |-> [Returned(c, RetOk(0)) EXCEPT !.id = id, !.val = q.val]]
    ELSE [p |-> p, c |-> Returned(c, RetErr(P4ck375(q.err)))]

\* a try_recv that leaves the cursor where it is when it returns a packet
RecvDecodedStays(p, c, id, q) ==
    IF q.ok
    THEN [p |-> p, c |-> [Returned(c, RetOk(0)) EXCEPT !.id = id, !.val = q.val]]
    ELSE [p |-> [p EXCEPT !.next = 0], c |-> Returned(c, RetErr(P4ck375(q.err)))]

\* try_recv after q, its P::decode(&self.msg[0..self.next])
RecvDecoded(p, c, id, q) ==
    IF q.ok
    THEN [p |-> [p EXCEPT !.next = p.next - q.n],
          c |-> [Returned(c, RetOk(0)) EXCEPT !.id = id, !.val = q.val]]
    ELSE [p |-> [p EXCEPT !.next = 0], c |-> Returned(c, RetErr(P4ck375(q.err)))]

RecvIdReset(p, c, d) ==
    IF ~d.ok
    THEN [p |-> [p EXCEPT !.next = 0], c |-> Returned(c, RetErr(P4ck375(d.err)))]
    ELSE IF c.kind = "peek_packet_id"
    THEN [p |-> p, c |-> [Returned(c, RetOk(0)) EXCEPT !.id = d.id]]
    ELSE IF d.id # c.P
    THEN [p |-> [p EXCEPT !.next = 0],
          c |-> Returned(c, RetErr(Err("WrongPacketId", PacketIdNum(d.id), 0)))]
    ELSE RecvDecoded(p, c, d.id, Decode(c.P, Slice(p.msg, 0, p.next)))

\* peek_packet_id after d, its PacketId::decode(&self.msg[0..self.next]),
\* and what try_recv does with the id
RecvId(p, c, d) ==
    IF ~d.ok
    THEN [p |-> [p EXCEPT !.next = 0], c |-> Returned(c, RetErr(P4ck375(d.err)))]
    ELSE IF c.kind = "peek_packet_id"
    THEN [p |-> p, c |-> [Returned(c, RetOk(0)) EXCEPT !.id = d.id]]
    ELSE IF d.id # c.P
    THEN [p |-> p, c |-> Returned(c, RetErr(Err("WrongPacketId", PacketIdNum(d.id), 0)))]
    ELSE RecvDecoded(p, c, d.id, Decode(c.P, Slice(p.msg, 0, p.next)))

\* try_recv and peek_packet_id once the cursor is not empty: [p, c]
RecvTail(p, c) == RecvId(p, c, DecodePacketId(Slice(p.msg, 0, p.next)))

\* peek_packet_id after r, the steps of its read
RecvRead(p, c, r) ==
    [p |-> [p EXCEPT !.msg = r.m.msg, !.buf = r.m.buf, !.state = r.m.state,
                     !.next = IF r.ret.k = "Ok" THEN r.ret.n ELSE @],
     c |-> [c EXCEPT !.tag = r.m.tag, !.len = r.m.len, !.off = r.m.off, !.ret = r.ret,
                     !.read = @ \/ r.ret.k = "Ok"],
     go |-> r.ret.k = "Ok"]

\* x.go: the read has returned Ok, or there was none to make
RecvGo(x) == IF x.go THEN RecvTail(x.p, x.c) ELSE [p |-> x.p, c |-> x.c]

RecvStepAlwaysReads(p, c, io, wrap) ==
    RecvGo(IF c.tag = "Start" /\ p.next # 0 /\ c.kind # "peek_packet_id"
           THEN [p |-> p, c |-> c, go |-> TRUE]
           ELSE RecvRead(p, c, ReadRun(RecvMachine(p, c), io, wrap)))

\* try_recv or peek_packet_id up to its next stream call: [p, c]
RecvStep(p, c, io, wrap) ==
    RecvGo(IF c.tag = "Start" /\ p.next # 0 THEN [p |-> p, c |-> c, go |-> TRUE]
           ELSE RecvRead(p, c, ReadRun(RecvMachine(p, c), io, wrap)))

\* the Read of a Recv (recv.rs), as the Recv holds it
RecvReadMachine(p, c) == Machine("poll", c.tag, c.len, c.off, p.msg, p.buf, p.state)

\* Recv::new: the Read is built whatever proto.next is
RecvNew == [Call("recv", <<>>, "", 0) EXCEPT !.tag = ReadNew(<<>>, <<>>, <<>>).tag]

\* Read::poll from one stream call, answered by io, to the next
RECURSIVE PollReadRun(_, _)
RECURSIVE PollReadOn(_)
PollReadRun(m, io) == PollReadOn(PollReadStep(m, io))

\* r: where the Read stands after a step
PollReadOn(r) ==
    IF r.ret.k = "Continue" /\ PollReadWants(r.m).op = "none"
    THEN PollReadRun(r.m, IoNone)
    ELSE r

\* Packet::decode of the enum of all packets: the id, then the variant
DecodePacket(buf) ==
    IF ~DecodePacketId(buf).ok THEN DecErr(DecodePacketId(buf).err)
    ELSE Decode(DecodePacketId(buf).id, buf)

\* stage Decode of Recv::poll, q: its Packet::decode(&msg[..len])
RecvPollDecoded(p, c, q) ==
    IF q.ok THEN [p |-> p, c |-> [Returned(c, RetOk(0)) EXCEPT !.id = q.val.id, !.val = q.val]]
    ELSE [p |-> p, c |-> Returned(c, RetErr(P4ck375(q.err)))]

\* stage Read of Recv::poll after r, the steps of its Read
RecvPollRead(p, c, r) ==
    IF r.ret.k = "Ok"
    THEN RecvPollDecoded([p EXCEPT !.msg = r.m.msg, !.buf = r.m.buf, !.state = r.m.state],
                         [c EXCEPT !.tag = r.m.tag, !.len = r.m.len, !.off = r.m.off,
                                   !.read = TRUE],
                         DecodePacket(Slice(r.m.msg, 0, r.ret.n)))
    ELSE [p |-> [p EXCEPT !.msg = r.m.msg, !.buf = r.m.buf, !.state = r.m.state],
          c |-> [c EXCEPT !.tag = r.m.tag, !.len = r.m.len, !.off = r.m.off, !.ret = r.ret]]

\* Recv::poll up to its next stream call: [p, c]
RecvPoll(p, c, io) == RecvPollRead(p, c, PollReadRun(RecvReadMachine(p, c), io))

IsSend(c) == c.kind \in {"send", "Send"}

\* one step of a send in either form
SendGo(p, c, io) == IF c.kind = "Send" THEN SendPoll(p, c, io) ELSE SendStep(p, c, io)

\* the bytes the next step of a send offers to the stream
SendWants(p, c) == IF c.tag = "Start" THEN <<>> ELSE AsyncWriteWants(SendMachine(p, c))

\* the bytes the next step of a Send offers to the stream
SendPollWants(p, c) ==
    IF c.tag = "Encode" THEN <<>> ELSE PollWriteWants(SendWriteMachine(p, c))

\* the stream call of the next step of a try_recv or peek_packet_id
RecvWants(p, c) ==
    IF c.tag = "Start" /\ p.next # 0 THEN [op |-> "none", n |-> 0]
    ELSE AsyncReadWants(RecvMachine(p, c))

\* the stream call of the next step of a Recv
RecvPollWants(p, c) == PollReadWants(RecvReadMachine(p, c))

(***************************************************************************)
(* Protocol specification: the two Protocol instances that a handshake     *)
(* leaves on the two ends of a stream; each side makes one call after the  *)
(* other, the two sides run concurrently.                                  *)
(***************************************************************************)

HelloA == Hello(FieldBytes(1, PUBLIC_KEY_LEN), FieldBytes(2, HASH_LEN), FieldBytes(3, SIGNATURE_LEN))

\* what the calls of send of one run are given; more than one packet: peers
\* that put several packets into one frame
\* plaintext that is no packet, from a peer that does not encode with
\* this codec: the bytes, as a pseudo-packet
Raw(bytes) == [id |-> "Raw", key |-> bytes, hash |-> <<>>, sig |-> <<>>]

\* a number that is no packet id, and two more bytes
UnknownIdPlain == ToLeBytes(2) \o <<0, 0>>

\* the id of Hello in front of too few bytes for a Hello
ShortHelloPlain == ToLeBytes(PacketIdNum("Hello")) \o <<0, 0>>

SendArgs ==
    {<<Heartbeat>>, <<HelloA>>, <<Heartbeat, HelloA>>,
     <<Raw(UnknownIdPlain)>>, <<Raw(ShortHelloPlain)>>}

\* the functions a run calls: the async ones of Protocol (lib.rs) together
\* with Recv, or the futures Send and Recv (send.rs, recv.rs)
Forms == {"async", "poll"}

\* the ephemeral secrets of initiator and responder
SecretPairs == {<<1, 2>>}

ProtoInit ==
    /\ codec = <<>> /\ FrameIdle /\ HsIdle
    /\ \E e \in SecretPairs :
        pr = [s \in Sides |-> [p |-> HandshakeDone(HandshakePair(e[1], e[2])[s]),
                               call |-> NoCall]]
    /\ net = [s \in Sides |-> <<>>]
    /\ \E a \in SendArgs, f \in Forms :
       /\ f = "poll" => Len(a) = 1 /\ a[1].id \in PacketIds
       /\ penv = [form |-> f, carry |-> a, log |-> [s \in Sides |-> <<>>],
                  got |-> [s \in Sides |-> 0], taken |-> [s \in Sides |-> 0],
                  clean |-> [s \in Sides |-> TRUE], prev |-> [s \in Sides |-> NoCall],
                  calls |-> 0]

Completed(c) == c.ret.k \in {"Ok", "Err"}

\* what side s may call next
Calls(s) ==
    IF penv.form = "poll" THEN {SendNew(penv.carry), RecvNew} ELSE
    {Call("send", penv.carry, "", 0)}
    \cup {Call("try_recv", <<>>, P, IF pr[s].p.next = 0 THEN 0 ELSE penv.taken[s]) :
            P \in PacketIds}
    \cup {Call("peek_packet_id", <<>>, "", IF pr[s].p.next = 0 THEN 0 ELSE penv.taken[s])}
    \cup {RecvNew}

\* side s, whose previous call has returned, calls send, try_recv,
\* peek_packet_id or recv, which runs up to its first stream call
ProtoCall(s) ==
    /\ Completed(pr[s].call) /\ penv.calls < MaxCalls
    /\ \E c \in Calls(s) :
        \E r \in {IF IsSend(c) THEN SendGo(pr[s].p, c, IoNone)
                  ELSE IF pr[s].p.next # 0 /\ c.kind # "recv"
                  THEN RecvStep(pr[s].p, c, IoNone, FALSE)
                  ELSE [p |-> pr[s].p, c |-> c]} :
          /\ pr' = [pr EXCEPT ![s] = [p |-> r.p, call |-> r.c]]
          /\ penv' = [penv EXCEPT
                        !.prev[s] = pr[s].call,
                        !.calls = @ + 1,
                        !.log[s] = IF IsSend(c) /\ Running(r.c) THEN Append(@, c.pkts) ELSE @,
                        !.clean[s] = @ /\ ~(IsSend(c) /\ pr[s].p.next # 0),
                        !.taken[s] = @ + (IF r.c.kind = "try_recv" /\ r.c.ret.k = "Ok"
                                          THEN 1 ELSE 0)]
    /\ UNCHANGED <<codec, frameVars, hsVars, net>>

\* one step of the send of side s
ProtoSend(s) ==
    LET p == pr[s].p
        c == pr[s].call
        req == IF c.kind = "Send" THEN SendPollWants(p, c) ELSE SendWants(p, c)
    IN
    /\ IsSend(c) /\ Running(pr[s].call)
    /\ \E io \in PollWriteOutcomes(req, FALSE, FALSE) :
        \E r \in {SendGo(p, c, io)} :
          /\ pr' = [pr EXCEPT ![s] = [p |-> r.p,
                                      call |-> [r.c EXCEPT !.called = @ \/ req # <<>>,
                                                           !.out = @ \o SubSeq(req, 1, r.n)]]]
          /\ net' = [net EXCEPT ![s] = @ \o SubSeq(req, 1, r.n)]
    /\ UNCHANGED <<codec, frameVars, hsVars, penv>>

\* one step of the try_recv, peek_packet_id or recv of side s
ProtoRecv(s) ==
    LET p == pr[s].p
        c == pr[s].call
        want == IF c.kind = "recv" THEN RecvPollWants(p, c) ELSE RecvWants(p, c)
    IN
    /\ ~IsSend(c) /\ Running(pr[s].call)
    /\ \E io \in PollReadOutcomes(want, net[Peer(s)], FALSE, FALSE, FALSE), wrap \in BOOLEAN :
        \E r \in {IF c.kind = "recv" THEN RecvPoll(p, c, io) ELSE RecvStep(p, c, io, wrap)} :
          LET took == IF want.op = "read" /\ io.k = "Ok" THEN io.n ELSE 0
              fresh == r.c.read /\ ~c.read
              one == IF r.c.kind = "try_recv" /\ r.c.ret.k = "Ok" THEN 1 ELSE 0
          IN
          /\ pr' = [pr EXCEPT ![s] = [p |-> r.p,
                                      call |-> [r.c EXCEPT !.called = @ \/ want.op # "none"]]]
          /\ net' = [net EXCEPT ![Peer(s)] = SubSeq(@, took + 1, Len(@))]
          /\ penv' = [penv EXCEPT
                        !.got[s] = @ + (IF fresh THEN 1 ELSE 0),
                        !.taken[s] = (IF fresh THEN 0 ELSE @) + one,
                        !.clean[s] = IF fresh THEN c.kind # "recv" \/ p.next = 0 ELSE @]
    /\ UNCHANGED <<codec, frameVars, hsVars>>

ProtoNext == \E s \in Sides : ProtoCall(s) \/ ProtoSend(s) \/ ProtoRecv(s)

SpecProto == ProtoInit /\ [][ProtoNext]_vars

(***************************************************************************)
(* Claims about the Protocol layer                                         *)
(***************************************************************************)

\* the packets of the frame side s has read last
PendingFrame(s) == penv.log[Peer(s)][penv.got[s]]

\* the plaintext of a frame of these packets
PlainOf(pkts) == Slice(EncodeEach(pkts, Zeros(MSG_MAX_LEN), 0).buf, 0,
                       EncodeEach(pkts, Zeros(MSG_MAX_LEN), 0).n)

WrongId(ret) == ret.k = "Err" /\ ret.e.kind = "WrongPacketId"

\* C2: between the two Protocols of a completed handshake, in both
\* directions: a try_recv that has gone to the stream and has returned has
\* read a frame of the other side's send, and when that send was of one
\* packet it returns that packet, equal in every field, if it asks for the
\* packet's type, and fails with WrongPacketId of the packet's id if it
\* asks for another type.
C2_SendRecvRoundTrip ==
    \A s \in Sides :
        LET c == pr[s].call IN
        (c.kind = "try_recv" /\ Completed(c) /\ c.called) =>
            /\ c.read
            /\ (Len(PendingFrame(s)) = 1 /\ PendingFrame(s)[1].id \in PacketIds) =>
                  IF c.P = PendingFrame(s)[1].id
                  THEN c.ret.k = "Ok" /\ c.val = PendingFrame(s)[1]
                  ELSE WrongId(c.ret) /\ c.ret.e.a = PacketIdNum(PendingFrame(s)[1].id)

\* A has sent to B and B has received; then B has sent to A and A receives
C2_Witness ==
    /\ pr["A"].call.kind = "try_recv" /\ pr["A"].call.ret.k = "Ok" /\ pr["A"].call.read
    /\ pr["A"].call.val = HelloA /\ penv.log["B"] = << <<HelloA>> >>
    /\ penv.got["B"] = 1 /\ penv.taken["B"] = 1 /\ penv.log["A"] = << <<HelloA>> >>

\* C9: when the frame a side has read holds k >= 2 packets, of which k0
\* have been returned, a try_recv of the type of packet k0 + 1 returns
\* packet k0 + 1, and reads no new frame while packets are left.
C9_PacketsInWireOrder ==
    \A s \in Sides :
        LET c == pr[s].call IN
        (/\ c.kind = "try_recv" /\ Completed(c) /\ penv.got[s] >= 1 /\ penv.clean[s]
         /\ Len(PendingFrame(s)) >= 2 /\ c.k0 >= 1 /\ c.k0 < Len(PendingFrame(s))
         /\ c.P = PendingFrame(s)[c.k0 + 1].id) =>
            c.ret.k = "Ok" /\ c.val = PendingFrame(s)[c.k0 + 1] /\ ~c.read

\* C10: a try_recv::<P> that meets a packet of another id fails with
\* WrongPacketId and leaves the cursor on the whole plaintext of the frame,
\* the plaintext as it was read; the try_recv of the reported id that
\* follows returns Ok with a packet of that id (the frame's packet, when
\* none was taken from the frame before) and makes no stream call.
C10_WrongIdKeepsPending ==
    \A s \in Sides :
        LET c == pr[s].call
            p == pr[s].p
            pv == penv.prev[s]
        IN
        /\ (c.kind = "try_recv" /\ WrongId(c.ret) /\ c.k0 = 0 /\ penv.clean[s]) =>
              /\ c.ret.e.a = PacketIdNum(PendingFrame(s)[1].id)
              /\ p.next = Len(PlainOf(PendingFrame(s)))
              /\ Slice(p.msg, 0, p.next) = PlainOf(PendingFrame(s))
        /\ (/\ c.kind = "try_recv" /\ Completed(c)
            /\ pv.kind = "try_recv" /\ WrongId(pv.ret) /\ c.P = PacketIdOf(pv.ret.e.a)
            /\ PendingFrame(s)[1].id \in PacketIds) =>
              /\ c.ret.k = "Ok" /\ ~c.called /\ ~c.read /\ c.val.id = c.P
              /\ (c.k0 = 0 /\ penv.clean[s]) => c.val = PendingFrame(s)[1]

\* the call is a try_recv or a peek_packet_id
IsRecv(c) == c.kind \in {"try_recv", "peek_packet_id"}

\* the call has failed in PacketId::decode or in P::decode
DecodeFailed(c) ==
    /\ IsRecv(c) /\ c.ret.k = "Err"
    /\ c.ret.e.kind \in {"P4ck375BufferSize", "UnknownPacketId", "PacketId", "Ed25519"}

RECURSIVE UnreadLen(_, _)
UnreadLen(s, i) ==
    IF i > Len(penv.log[Peer(s)]) THEN 0
    ELSE Len(PlainOf(penv.log[Peer(s)][i])) + MSG_OVERHEAD + UnreadLen(s, i + 1)

\* C12: a peek_packet_id called with a non-empty cursor returns without a
\* stream call and leaves cursor, plaintext and stream as they are; called
\* with an empty cursor it goes to the stream; when it has returned Ok
\* after reading, exactly one frame is gone from the stream and the cursor
\* spans the whole plaintext of that frame; a peek_packet_id that follows a
\* successful one returns the same id and reads nothing.
C12_PeekReadsOneFrameWhenEmpty ==
    /\ [](\A s \in Sides :
            LET c == pr[s].call
                pv == penv.prev[s]
            IN
            /\ (c.kind = "peek_packet_id" /\ c.ret.k = "Ok" /\ c.called) =>
                  /\ c.read /\ pr[s].p.next = Len(PlainOf(PendingFrame(s)))
                  /\ Slice(pr[s].p.msg, 0, pr[s].p.next) = PlainOf(PendingFrame(s))
                  /\ ~Running(pr[Peer(s)].call) =>
                        Len(net[Peer(s)]) = UnreadLen(s, penv.got[s] + 1)
            /\ (c.kind = "peek_packet_id" /\ Completed(c)
                /\ pv.kind = "peek_packet_id" /\ pv.ret.k = "Ok") =>
                  c.ret.k = "Ok" /\ c.id = pv.id /\ ~c.called /\ ~c.read)
    /\ [][\A s \in Sides :
            (ProtoCall(s) /\ pr'[s].call.kind = "peek_packet_id") =>
                IF pr[s].p.next # 0
                THEN /\ Completed(pr'[s].call) /\ pr'[s].p = pr[s].p
                     /\ penv'.got = penv.got
                ELSE Running(pr'[s].call) /\ RecvWants(pr'[s].p, pr'[s].call).op # "none"]_vars

\* B peeks twice at the frame A has sent, then takes the packet
C12_Witness ==
    /\ pr["B"].call.kind = "peek_packet_id" /\ pr["B"].call.ret.k = "Ok"
    /\ ~pr["B"].call.called /\ pr["B"].call.id = "Hello"
    /\ penv.prev["B"].kind = "peek_packet_id" /\ penv.prev["B"].read
    /\ penv.got["B"] = 1 /\ net["A"] = <<>> /\ penv.log["A"] = << <<HelloA>> >>

\* C13: a recv called with a non-empty cursor (the call before it was a
\* successful peek_packet_id) returns the pending packet, the one whose id
\* was peeked, without a stream call; and a recv that returns a packet
\* leaves the cursor behind that packet (empty, when the frame held one
\* packet).
C13_RecvRefillsOnlyWhenEmpty ==
    \A s \in Sides :
        LET c == pr[s].call
            pv == penv.prev[s]
        IN
        /\ (/\ c.kind = "recv" /\ Completed(c)
            /\ pv.kind = "peek_packet_id" /\ pv.ret.k = "Ok") =>
              c.ret.k = "Ok" /\ c.id = pv.id /\ ~c.called /\ ~c.read
        /\ (c.kind = "recv" /\ c.ret.k = "Ok" /\ Len(PendingFrame(s)) = 1) =>
              pr[s].p.next = 0

\* C14: a send of one packet, in either form (Protocol::send, Send), that
\* has returned Ok has put on the stream one frame and nothing else: the
\* two bytes of its length and the Noise message, under the sender's key
\* and the nonce of the call, of exactly the packet's encoding (4 bytes of
\* a Heartbeat, 132 of a Hello); it returns the number of these bytes, the
\* length of the encoding + 16 + 2.
C14_SendEmitsOneExactFrame ==
    \A s \in Sides :
        LET c == pr[s].call IN
        (IsSend(c) /\ c.ret.k = "Ok" /\ Len(c.pkts) = 1 /\ c.pkts[1].id \in PacketIds) =>
            Once(LAMBDA plain :
                /\ Len(plain) = (IF c.pkts[1].id = "Heartbeat" THEN 4 ELSE 132)
                /\ c.ret.n = Len(plain) + NOISE_OVERHEAD + LEN_OVERHEAD
                /\ Len(c.out) = c.ret.n
                /\ SubSeq(c.out, 1, LEN_OVERHEAD) = ToLeBytes(Len(plain) + NOISE_OVERHEAD)
                /\ SubSeq(c.out, LEN_OVERHEAD + 1, Len(c.out))
                     = WriteMessage([pr[s].p.state EXCEPT !.sn = @ - 1], plain, RAW_MAX_LEN).out,
                PlainOf(c.pkts))

\* the second send of a Hello by A has returned the 150 bytes of its frame
C14_Witness ==
    /\ pr["A"].call.kind = "send" /\ pr["A"].call.ret = RetOk(150)
    /\ pr["A"].call.pkts = <<HelloA>> /\ pr["A"].p.state.sn = 2
    /\ Len(pr["A"].call.out) = 150

C10_Witness ==
    /\ pr["B"].call.kind = "try_recv" /\ pr["B"].call.ret.k = "Ok"
    /\ pr["B"].call.val = HelloA /\ ~pr["B"].call.called
    /\ WrongId(penv.prev["B"].ret) /\ penv.prev["B"].P = "Heartbeat"
    /\ penv.prev["B"].read /\ penv.clean["B"]

(***************************************************************************)
(* Handshake engines (initiate.rs, respond.rs). An engine is the stage it  *)
(* is in (inner), the Frame Writer or Reader of that stage, or what the    *)
(* stage holds of one (m), and what its poll has returned last (ret). One  *)
(* step is one turn of the loop of the engine's poll around one turn of    *)
(* the loop of the stage's Writer or Reader.                               *)
(***************************************************************************)

\* the Pending answers the stream may give where it could have made progress
MaxPending == 1

Engine(inner, m, ret) == [inner |-> inner, m |-> m, ret |-> ret]

\* Initiate::new, Respond::new: the stage State; e: the ephemeral secret the
\* builder will draw
EngineNew(e) ==
    Engine("State", Machine("poll", "Empty", 0, 0, <<>>, <<>>, e), RetContinue)

EngineRes(e, n) == [e |-> e, n |-> n]

\* the stage's poll(ctx)? has returned r. Ready(Ok): the stage after, with
\* m; Continue: the stage goes on in its loop; Pending: the stage is put
\* back; an error or a panic: inner stays Empty behind mem::take
EngineNext(e, r, after, m) ==
    IF r.ret.k = "Ok"
    THEN EngineRes(Engine(after, m, IF after = "Done" THEN RetOk(0) ELSE RetContinue), r.n)
    ELSE IF r.ret.k \in {"Continue", "Pending"}
    THEN EngineRes([e EXCEPT !.m = r.m, !.ret = r.ret], r.n)
    ELSE EngineRes(Engine("Empty", r.m, r.ret), r.n)

\* a stage that takes every answer of poll_flush but an error for Pending
FlushStepNeverReady(m, io) ==
    IF io.k = "Err" THEN StepRes(m, RetErr(IoErr), 0)
    ELSE StepRes(m, RetPending, 0)

\* poll_flush
FlushStep(m, io) ==
    IF io.k = "Ok" THEN StepRes(m, RetOk(0), 0)
    ELSE IF io.k = "Err" THEN StepRes(m, RetErr(IoErr), 0)
    ELSE StepRes(m, RetPending, 0)

InitiateStepNoFlush(e, io) ==
    IF e.inner = "State"
    THEN EngineRes(Engine("Write", WriteNew(<<>>, Zeros(HANDSHAKE_BUF_LEN),
                                            BuildHandshake(TRUE, e.m.state)),
                          RetContinue), 0)
    ELSE IF e.inner = "Write"
    THEN Once(LAMBDA r : EngineNext(e, r, "Flush", r.m), PollWriteStep(e.m, io))
    ELSE IF e.inner = "Flush"
    THEN EngineRes(Engine("Read", ReadNew(<<>>, e.m.buf, e.m.state), RetContinue), 0)
    ELSE IF e.inner = "Read"
    THEN Once(LAMBDA r : EngineNext(e, r, "Done", r.m), PollReadStep(e.m, io))
    ELSE EngineRes(Engine("Empty", e.m, RetPanic), 0)

InitiateStepEarlyDone(e, io) ==
    IF e.inner = "State"
    THEN EngineRes(Engine("Write", WriteNew(<<>>, Zeros(HANDSHAKE_BUF_LEN),
                                            BuildHandshake(TRUE, e.m.state)),
                          RetContinue), 0)
    ELSE IF e.inner = "Write"
    THEN Once(LAMBDA r : EngineNext(e, r, "Flush", r.m), PollWriteStep(e.m, io))
    ELSE IF e.inner = "Flush"
    THEN EngineNext(e, FlushStep(e.m, io), "Done", e.m)
    ELSE IF e.inner = "Read"
    THEN Once(LAMBDA r : EngineNext(e, r, "Done", r.m), PollReadStep(e.m, io))
    ELSE EngineRes(Engine("Empty", e.m, RetPanic), 0)

\* one turn of the loop of Initiate::poll
InitiateStep(e, io) ==
    IF e.inner = "State"
    THEN EngineRes(Engine("Write", WriteNew(<<>>, Zeros(HANDSHAKE_BUF_LEN),
                                            BuildHandshake(TRUE, e.m.state)),
                          RetContinue), 0)
    ELSE IF e.inner = "Write"
    THEN Once(LAMBDA r : EngineNext(e, r, "Flush", r.m), PollWriteStep(e.m, io))
    ELSE IF e.inner = "Flush"
    THEN EngineNext(e, FlushStep(e.m, io), "Read", ReadNew(<<>>, e.m.buf, e.m.state))
    ELSE IF e.inner = "Read"
    THEN Once(LAMBDA r : EngineNext(e, r, "Done", r.m), PollReadStep(e.m, io))
    ELSE EngineRes(Engine("Empty", e.m, RetPanic), 0)

RespondStepWriteFirst(e, io) ==
    IF e.inner = "State"
    THEN EngineRes(Engine("Write", WriteNew(<<>>, Zeros(HANDSHAKE_BUF_LEN),
                                            BuildHandshake(FALSE, e.m.state)),
                          RetContinue), 0)
    ELSE IF e.inner = "Read"
    THEN Once(LAMBDA r : EngineNext(e, r, "Write", WriteNew(<<>>, r.m.buf, r.m.state)),
              PollReadStep(e.m, io))
    ELSE IF e.inner = "Write"
    THEN Once(LAMBDA r : EngineNext(e, r, "Flush", r.m), PollWriteStep(e.m, io))
    ELSE IF e.inner = "Flush" THEN EngineNext(e, FlushStep(e.m, io), "Done", e.m)
    ELSE EngineRes(Engine("Empty", e.m, RetPanic), 0)

RespondStepDoneAgain(e, io) ==
    IF e.inner = "State"
    THEN EngineRes(Engine("Read", ReadNew(<<>>, Zeros(HANDSHAKE_BUF_LEN),
                                          BuildHandshake(FALSE, e.m.state)),
                          RetContinue), 0)
    ELSE IF e.inner = "Read"
    THEN Once(LAMBDA r : EngineNext(e, r, "Write", WriteNew(<<>>, r.m.buf, r.m.state)),
              PollReadStep(e.m, io))
    ELSE IF e.inner = "Write"
    THEN Once(LAMBDA r : EngineNext(e, r, "Flush", r.m), PollWriteStep(e.m, io))
    ELSE IF e.inner = "Flush" THEN EngineNext(e, FlushStep(e.m, io), "Done", e.m)
    ELSE IF e.inner = "Done" THEN EngineRes(Engine("Done", e.m, RetOk(0)), 0)
    ELSE EngineRes(Engine("Empty", e.m, RetPanic), 0)

\* a Respond whose buffer has the size of the reply without its header
RespondStepTightBuf(e, io) ==
    IF e.inner = "State"
    THEN EngineRes(Engine("Read", ReadNew(<<>>, Zeros(DHLEN + TAGLEN),
                                          BuildHandshake(FALSE, e.m.state)),
                          RetContinue), 0)
    ELSE IF e.inner = "Read"
    THEN Once(LAMBDA r : EngineNext(e, r, "Write", WriteNew(<<>>, r.m.buf, r.m.state)),
              PollReadStep(e.m, io))
    ELSE IF e.inner = "Write"
    THEN Once(LAMBDA r : EngineNext(e, r, "Flush", r.m), PollWriteStep(e.m, io))
    ELSE IF e.inner = "Flush" THEN EngineNext(e, FlushStep(e.m, io), "Done", e.m)
    ELSE EngineRes(Engine("Empty", e.m, RetPanic), 0)

\* one turn of the loop of Respond::poll
RespondStep(e, io) ==
    IF e.inner = "State"
    THEN EngineRes(Engine("Read", ReadNew(<<>>, Zeros(HANDSHAKE_BUF_LEN),
                                          BuildHandshake(FALSE, e.m.state)),
                          RetContinue), 0)
    ELSE IF e.inner = "Read"
    THEN Once(LAMBDA r : EngineNext(e, r, "Write", WriteNew(<<>>, r.m.buf, r.m.state)),
              PollReadStep(e.m, io))
    ELSE IF e.inner = "Write"
    THEN Once(LAMBDA r : EngineNext(e, r, "Flush", r.m), PollWriteStep(e.m, io))
    ELSE IF e.inner = "Flush" THEN EngineNext(e, FlushStep(e.m, io), "Done", e.m)
    ELSE EngineRes(Engine("Empty", e.m, RetPanic), 0)

\* the stream call of an engine's next step
EngineWants(e) ==
    IF e.inner = "Write" /\ PollWriteWants(e.m) # <<>>
    THEN [op |-> "write", n |-> Len(PollWriteWants(e.m))]
    ELSE IF e.inner = "Read" THEN PollReadWants(e.m)
    ELSE IF e.inner = "Flush" THEN [op |-> "flush", n |-> 0]
    ELSE [op |-> "none", n |-> 0]

(***************************************************************************)
(* Handshake specification: an Initiate (side A) and a Respond (side B) on *)
(* the two ends of a duplex channel that loses, reorders and fails         *)
(* nothing. A call may move a part of the bytes (MaxPartial times) and may *)
(* answer Pending although it could move bytes (MaxPending times).         *)
(***************************************************************************)

HsInit ==
    /\ codec = <<>> /\ FrameIdle /\ ProtoIdle
    /\ \E e \in SecretPairs \cup {<<2, 1>>} :
        eng = [s \in Sides |-> EngineNew(IF s = "A" THEN e[1] ELSE e[2])]
    /\ chan = [s \in Sides |-> <<>>]
    /\ henv = [partials |-> 0, pendings |-> 0, ops |-> [s \in Sides |-> <<>>],
               sent |-> [s \in Sides |-> 0], rcvd |-> [s \in Sides |-> 0],
               ready |-> [s \in Sides |-> 0]]

\* what the stream may answer the next call of the engine of side s
HsOutcomes(s) ==
    LET want == EngineWants(eng[s])
        partial == henv.partials < MaxPartial
        pend == henv.pendings < MaxPending
    IN
    IF want.op = "none" THEN {IoNone}
    ELSE IF want.op = "flush"
    THEN {Io("Ok", 0, <<>>)} \cup (IF pend THEN {Io("Pending", 0, <<>>)} ELSE {})
    ELSE IF want.op = "write"
    THEN {io \in PollWriteOutcomes(PollWriteWants(eng[s].m), partial, FALSE) :
            io.k = "Pending" => pend}
    ELSE {io \in PollReadOutcomes(want, chan[Peer(s)], FALSE, partial, FALSE) :
            io.k = "Pending" => (pend \/ chan[Peer(s)] = <<>>)}

\* the stream calls of one side that have answered Ok, a run of calls of
\* one kind noted once
OpsAfter(ops, op, io) ==
    IF op # "none" /\ io.k = "Ok" /\ (ops = <<>> \/ ops[Len(ops)] # op)
    THEN Append(ops, op)
    ELSE ops

\* the channel and the stream's budget after the step r of side s on io;
\* ops, sent, rcvd: what side s has called, written and read so far;
\* ready: the times its poll has returned Ready(Ok)
HsMoved(s, io, r) ==
    LET want == EngineWants(eng[s]) IN
    /\ eng' = [eng EXCEPT ![s] = r.e]
    /\ chan' = IF want.op = "write"
               THEN [chan EXCEPT ![s] = @ \o SubSeq(PollWriteWants(eng[s].m), 1, r.n)]
               ELSE IF want.op = "read" /\ io.k = "Ok"
               THEN [chan EXCEPT ![Peer(s)] = SubSeq(@, io.n + 1, Len(@))]
               ELSE chan
    /\ henv' = [henv EXCEPT
                  !.partials = @ + (IF /\ io.k = "Ok"
                                       /\ io.n < Min(want.n, IF want.op = "write" THEN want.n
                                                             ELSE Len(chan[Peer(s)]))
                                    THEN 1 ELSE 0),
                  !.pendings = @ + (IF /\ io.k = "Pending"
                                       /\ (want.op \in {"write", "flush"}
                                           \/ chan[Peer(s)] # <<>>)
                                    THEN 1 ELSE 0),
                  !.ops[s] = OpsAfter(@, want.op, io),
                  !.sent[s] = @ + (IF want.op = "write" THEN r.n ELSE 0),
                  !.rcvd[s] = @ + (IF want.op = "read" /\ io.k = "Ok" THEN io.n ELSE 0),
                  !.ready[s] = @ + (IF r.e.ret.k = "Ok" THEN 1 ELSE 0)]

\* the scheduler polls the Initiate
InitiatePoll ==
    /\ Running(eng["A"])
    /\ \E io \in HsOutcomes("A") : \E r \in {InitiateStep(eng["A"], io)} : HsMoved("A", io, r)
    /\ UNCHANGED <<codec, frameVars, protoVars>>

\* the scheduler polls the Respond
RespondPoll ==
    /\ Running(eng["B"])
    /\ \E io \in HsOutcomes("B") : \E r \in {RespondStep(eng["B"], io)} : HsMoved("B", io, r)
    /\ UNCHANGED <<codec, frameVars, protoVars>>

HsNext == InitiatePoll \/ RespondPoll

SpecHS == HsInit /\ [][HsNext]_vars

\* a fair scheduler: an engine that can take a step is polled in the end
SpecHSFair == SpecHS /\ WF_vars(InitiatePoll) /\ WF_vars(RespondPoll)

\* the caller polls the Initiate again after it has returned Ready
InitiatePollAgain ==
    /\ Completed(eng["A"])
    /\ \E io \in HsOutcomes("A") : \E r \in {InitiateStep(eng["A"], io)} : HsMoved("A", io, r)
    /\ UNCHANGED <<codec, frameVars, protoVars>>

\* the caller polls the Respond again after it has returned Ready
RespondPollAgain ==
    /\ Completed(eng["B"])
    /\ \E io \in HsOutcomes("B") : \E r \in {RespondStep(eng["B"], io)} : HsMoved("B", io, r)
    /\ UNCHANGED <<codec, frameVars, protoVars>>

HsAgainNext == HsNext \/ InitiatePollAgain \/ RespondPollAgain

\* the handshake with callers that may poll a finished engine once more
SpecHSAgain == HsInit /\ [][HsAgainNext]_vars

\* C1: under the fair scheduler, on the channel that may answer Pending and
\* move a part of the bytes, in the end both engines have returned
\* Ready(Ok).
C1_BothComplete == <>(\A s \in Sides : eng[s].ret.k = "Ok")

(***************************************************************************)
(* Claims about the handshake engines                                      *)
(***************************************************************************)

\* the ephemeral secret of the engine of side s
SecretOf(s) == IF eng[s].inner = "State" THEN eng[s].m.state ELSE eng[s].m.state.e

\* C15: an engine that has returned Ready(Ok) stands in Done and the Noise
\* state of the Handshake it has yielded (m.state) is a transport-phase
\* state: the handshake state, as the two messages have left it, turned
\* into a transport state.
C15_YieldsTransportState ==
    \A s \in Sides :
        eng[s].ret.k = "Ok" =>
            /\ eng[s].inner = "Done"
            /\ ~eng[s].m.state.hs
            /\ eng[s].m.state = HandshakePair(SecretOf("A"), SecretOf("B"))[s]

\* the frame of the first handshake message (-> e) and of the reply
\* (<- e, ee), with their length fields
FirstFrameLen == LEN_OVERHEAD + DHLEN

ReplyFrameLen == LEN_OVERHEAD + DHLEN + TAGLEN

\* C16: the Initiate makes no peek and no read on the stream, and is not
\* about to make one, before it has written the whole first frame and the
\* flush after it has answered Ok; a Respond that has returned Ready(Ok)
\* has written the whole reply and then had Ok from its flush, as its last
\* call on the stream.
C16_FlushBeforeReadAndYield ==
    /\ (\/ EngineWants(eng["A"]).op \in {"peek", "read"}
        \/ \E i \in DOMAIN henv.ops["A"] : henv.ops["A"][i] \in {"peek", "read"}) =>
          /\ Len(henv.ops["A"]) >= 2 /\ SubSeq(henv.ops["A"], 1, 2) = <<"write", "flush">>
          /\ henv.sent["A"] = FirstFrameLen
    /\ eng["B"].ret.k = "Ok" =>
          /\ henv.ops["B"] = <<"peek", "read", "write", "flush">>
          /\ henv.sent["B"] = ReplyFrameLen

\* both engines have returned Ready(Ok), the stream having answered
\* Pending once on the way
C16_Witness ==
    /\ eng["A"].ret.k = "Ok" /\ eng["B"].ret.k = "Ok" /\ henv.pendings = 1
    /\ henv.ops["A"] = <<"write", "flush", "peek", "read">>

\* the changes of stage of Initiate::poll
InitiateOrder ==
    {<<"State", "Write">>, <<"Write", "Flush">>, <<"Flush", "Read">>, <<"Read", "Done">>}

\* C17: the Initiate starts in State (Start) and changes its stage only
\* from State to Write, Write to Flush, Flush to Read and Read to Done, or
\* to Empty, where a failed or misused poll leaves it; it is in Done only
\* when it has read the whole reply frame, after its write and flush, and
\* the Noise state has processed both messages and agrees with the
\* responder's.
C17_InitiateStagesInOrder ==
    /\ eng["A"].inner = "State"
    /\ [][eng["A"].inner' # eng["A"].inner =>
             \/ <<eng["A"].inner, eng["A"].inner'>> \in InitiateOrder
             \/ eng["A"].inner' = "Empty"]_vars
    /\ [](eng["A"].inner = "Done" =>
             /\ henv.ops["A"] = <<"write", "flush", "peek", "read">>
             /\ henv.rcvd["A"] = ReplyFrameLen
             /\ eng["A"].m.state.pos = 2
             /\ IntoTransportMode(eng["A"].m.state).state
                  = HandshakePair(SecretOf("A"), SecretOf("B")).A)

\* the Initiate is in Done while the Respond still waits for its flush
C17_Witness ==
    /\ eng["A"].inner = "Done" /\ eng["A"].ret.k = "Ok" /\ eng["B"].inner = "Flush"
    /\ henv.rcvd["A"] = ReplyFrameLen

\* the changes of stage of Respond::poll
RespondOrder ==
    {<<"State", "Read">>, <<"Read", "Write">>, <<"Write", "Flush">>, <<"Flush", "Done">>}

\* C18: the Respond starts in State (Start) and changes its stage only
\* from State to Read, Read to Write, Write to Flush and Flush to Done, or
\* to Empty, where a failed or misused poll leaves it; it has written a
\* byte, or is about to, only when it has read the whole first frame of
\* the initiator and its Noise state has processed that message.
C18_RespondStagesInOrder ==
    /\ eng["B"].inner = "State"
    /\ [][eng["B"].inner' # eng["B"].inner =>
             \/ <<eng["B"].inner, eng["B"].inner'>> \in RespondOrder
             \/ eng["B"].inner' = "Empty"]_vars
    /\ []((henv.sent["B"] > 0 \/ EngineWants(eng["B"]).op = "write") =>
             /\ Len(henv.ops["B"]) >= 2 /\ SubSeq(henv.ops["B"], 1, 2) = <<"peek", "read">>
             /\ henv.rcvd["B"] = FirstFrameLen
             /\ eng["B"].m.state.pos = 2
             /\ eng["B"].m.state.re = Pub(SecretOf("A")))

\* the Respond has written a part of its reply
C18_Witness ==
    /\ eng["B"].inner = "Write" /\ henv.sent["B"] > 0 /\ henv.sent["B"] < ReplyFrameLen
    /\ henv.rcvd["B"] = FirstFrameLen

\* C19: an engine returns Ready(Ok) once at most; a poll of an engine that
\* has returned Ready(Ok) panics: it returns no result, leaves the Noise
\* state and the buffers as they were, and neither writes to the stream
\* nor takes from it nor calls it.
C19_PollAfterDonePanics ==
    /\ [](\A s \in Sides : henv.ready[s] <= 1)
    /\ [][\A s \in Sides :
            (eng[s].ret.k = "Ok" /\ eng[s]' # eng[s]) =>
                /\ eng[s].ret.k' = "Panic" /\ eng[s].inner' = "Empty"
                /\ eng[s].m' = eng[s].m /\ chan' = chan
                /\ henv.sent' = henv.sent /\ henv.rcvd' = henv.rcvd
                /\ henv.ops' = henv.ops]_vars

\* both engines have been polled again after Done
C19_Witness ==
    \A s \in Sides :
        /\ eng[s].inner = "Empty" /\ eng[s].ret.k = "Panic" /\ eng[s].m.tag = "Done"
        /\ eng[s].m.state.pos = 2

\* the answer Pending of a stream call
IoPending == Io("Pending", 0, <<>>)

\* the step r of a machine that stood in m, on the answer io to the stream
\* call it wanted (none: called = FALSE): if the step returns Pending, the
\* call was made and answered Pending, no byte has moved, and the machine
\* is as it was (stage, len, offset, buffers, Noise state)
PendingKeeps(m, called, io, after, ret, n) ==
    ret.k = "Pending" => called /\ io.k = "Pending" /\ after = m /\ n = 0

\* C25: in every state an engine, a Frame Writer or Reader, a Send or a
\* Recv can be in, whatever the stream answers the next poll: the poll
\* returns Pending only if it made a stream call (peek, read, write or
\* flush) and that call answered Pending, and then the machine is left in
\* the same stage with the same length, offset, buffers and Noise state,
\* so that the next poll makes the same call.
C25_PendingOnlyFromStream ==
    /\ henv # <<>> =>
          \A s \in Sides : \A io \in HsOutcomes(s) \cup {IoPending} :
             \A r \in {IF s = "A" THEN InitiateStep(eng[s], io) ELSE RespondStep(eng[s], io)} :
                /\ PendingKeeps(eng[s], EngineWants(eng[s]).op # "none", io,
                                [r.e EXCEPT !.ret = eng[s].ret], r.e.ret, r.n)
                /\ r.e.ret.k = "Pending" => EngineWants(r.e) = EngineWants(eng[s])
    /\ fenv # <<>> =>
          /\ \A io \in PollWriteOutcomes(WriteWants(fw.m), TRUE, TRUE) \cup {IoPending} :
                \A r \in {WriteStep(fw.m, io)} :
                   PendingKeeps(fw.m, WriteWants(fw.m) # <<>>, io, r.m, r.ret, r.n)
          /\ \A io \in PollReadOutcomes(ReadWants(fr.m), wire, fenv.closed, TRUE, TRUE)
                         \cup {IoPending}, wrap \in BOOLEAN :
                \A r \in {ReadStep(fr.m, io, wrap)} :
                   PendingKeeps(fr.m, ReadWants(fr.m).op # "none", io, r.m, r.ret, r.n)
    /\ penv # <<>> =>
          \A s \in Sides :
            /\ pr[s].call.kind = "Send" =>
                  \A io \in PollWriteOutcomes(SendPollWants(pr[s].p, pr[s].call), TRUE, TRUE)
                            \cup {IoPending} :
                    \A r \in {SendPoll(pr[s].p, pr[s].call, io)} :
                       PendingKeeps(pr[s], SendPollWants(pr[s].p, pr[s].call) # <<>>, io,
                                    [p |-> r.p, call |-> [r.c EXCEPT !.ret = pr[s].call.ret]],
                                    r.c.ret, r.n)
            /\ pr[s].call.kind = "recv" =>
                  \A io \in PollReadOutcomes(RecvPollWants(pr[s].p, pr[s].call), net[Peer(s)],
                                             FALSE, TRUE, TRUE) \cup {IoPending} :
                    \A r \in {RecvPoll(pr[s].p, pr[s].call, io)} :
                       PendingKeeps(pr[s], RecvPollWants(pr[s].p, pr[s].call).op # "none", io,
                                    [p |-> r.p, call |-> [r.c EXCEPT !.ret = pr[s].call.ret]],
                                    r.c.ret, 0)

\* the Initiate has returned Pending in the middle of the reply: a part of
\* it is read, and the stream has answered Pending to the read of the rest
C25_Witness ==
    /\ eng["A"].inner = "Read" /\ eng["A"].ret.k = "Pending"
    /\ eng["A"].m.tag = "Read" /\ eng["A"].m.off > 0 /\ eng["A"].m.off < eng["A"].m.len
    /\ henv.pendings = MaxPending /\ henv.rcvd["A"] = LEN_OVERHEAD + eng["A"].m.off

\* the Write of write.rs holds a frame: write_message has returned Ok
HoldsFrame(w) == w.impl = "poll" /\ w.tag = "Write"

\* the frame held by w is well-formed: its header is its L, not truncated,
\* and L is at most RAW_MAX_LEN
FrameFits(w) ==
    /\ w.len - LEN_OVERHEAD <= RAW_MAX_LEN
    /\ FromLeBytes(w.buf[1], w.buf[2]) = w.len - LEN_OVERHEAD

\* no Frame Reader has failed with a size error
NoSizeReject(ret) == ret.k = "Err" => ret.e.kind \notin SizeErrors

NoiseGrowth(state) ==
    IF ~state.hs THEN NOISE_OVERHEAD
    ELSE IF state.pos = 1 THEN DHLEN
    ELSE DHLEN + TAGLEN

C27_ScratchNeverShrinks ==
    [][/\ penv # <<>> =>
             \A s \in Sides : /\ Len(pr'[s].p.msg) >= Len(pr[s].p.msg)
                              /\ Len(pr'[s].p.buf) >= Len(pr[s].p.buf)
       /\ henv # <<>> =>
             \A s \in Sides : /\ Len(eng'[s].m.buf) >= Len(eng[s].m.buf)
                              /\ eng'[s].inner = eng[s].inner =>
                                    Len(eng'[s].m.msg) >= Len(eng[s].m.msg)]_vars

\* the sizes the source states for the two handshake messages
STATED_FIRST_LEN == 56
STATED_REPLY_LEN == 72

\* no engine has failed for lack of space
NoSpaceError(ret) == ret.k = "Err" => ret.e.kind \notin {"BufferSize", "Noise"}

\* the Write of the engine of side s is about to call write_message
AtPrepare(s) == eng[s].inner = "Write" /\ eng[s].m.tag = "Prepare"

HandshakeInitiateStep(e, io, wrap) ==
    IF e.inner = "State"
    THEN EngineRes(Engine("Write", AsyncWriteNew(<<>>, Zeros(HANDSHAKE_BUF_LEN),
                                                 BuildHandshake(TRUE, e.m.state)),
                          RetContinue), 0)
    ELSE IF e.inner = "Write"
    THEN Once(LAMBDA r : EngineNext(e, r, "Flush", r.m), AsyncWriteStep(e.m, io))
    ELSE IF e.inner = "Flush"
    THEN EngineNext(e, FlushStep(e.m, io), "Read", AsyncReadNew(<<>>, e.m.buf, e.m.state))
    ELSE IF e.inner = "Read"
    THEN Once(LAMBDA r : EngineNext(e, r, "Done",
                                    [r.m EXCEPT !.state = IntoTransportMode(@).state]),
              AsyncReadStep(e.m, io, wrap))
    ELSE EngineRes(Engine("Empty", e.m, RetPanic), 0)

\* Handshake::respond(input, output) up to its next stream call
HandshakeRespondStep(e, io, wrap) ==
    IF e.inner = "State"
    THEN EngineRes(Engine("Read", AsyncReadNew(<<>>, Zeros(HANDSHAKE_BUF_LEN),
                                               BuildHandshake(FALSE, e.m.state)),
                          RetContinue), 0)
    ELSE IF e.inner = "Read"
    THEN Once(LAMBDA r : EngineNext(e, r, "Write", AsyncWriteNew(<<>>, r.m.buf, r.m.state)),
              AsyncReadStep(e.m, io, wrap))
    ELSE IF e.inner = "Write"
    THEN Once(LAMBDA r : EngineNext(e, r, "Flush", r.m), AsyncWriteStep(e.m, io))
    ELSE IF e.inner = "Flush"
    THEN EngineNext(e, FlushStep(e.m, io), "Done",
                    [e.m EXCEPT !.state = IntoTransportMode(@).state])
    ELSE EngineRes(Engine("Empty", e.m, RetPanic), 0)

\* the bytes the next step of the engine e in form f offers to the stream
FormWrites(f, e) ==
    IF e.inner # "Write" THEN <<>>
    ELSE IF f = "poll" THEN PollWriteWants(e.m) ELSE AsyncWriteWants(e.m)

\* the stream call of the next step of the engine e in form f
FormWants(f, e) ==
    IF FormWrites(f, e) # <<>> THEN [op |-> "write", n |-> Len(FormWrites(f, e))]
    ELSE IF e.inner = "Read"
    THEN (IF f = "poll" THEN PollReadWants(e.m) ELSE AsyncReadWants(e.m))
    ELSE IF e.inner = "Flush" THEN [op |-> "flush", n |-> 0]
    ELSE [op |-> "none", n |-> 0]

\* the payloads a peer may put into its handshake message
PeerPayloads == {<<>>, <<1, 2, 3>>}

\* the frame a peer in the other role sends: to a responder the first
\* message of an initiator; to an initiator with secret e the reply of a
\* responder that has read the initiator's message
PeerFrame(role, e, peer, payload) ==
    IF role = "respond"
    THEN Framed(WriteMessage(BuildHandshake(TRUE, peer), payload, NOISE_MAX_LEN).out)
    ELSE Framed(WriteMessage(
                  ReadMessage(BuildHandshake(FALSE, peer),
                              WriteMessage(BuildHandshake(TRUE, e), <<>>, NOISE_MAX_LEN).out,
                              0).state,
                  payload, NOISE_MAX_LEN).out)

Roles == {"initiate", "respond"}

FormsInit ==
    /\ codec = <<>> /\ FrameIdle /\ ProtoIdle
    /\ \E role \in Roles, e \in SecretPairs, payload \in PeerPayloads :
        /\ eng = [f \in Forms |-> EngineNew(e[1])]
        /\ chan = [f \in Forms |-> PeerFrame(role, e[1], e[2], payload)]
        /\ henv = [role |-> role, payload |-> payload, partials |-> 0, pendings |-> 0,
                   ops |-> [f \in Forms |-> <<>>], out |-> [f \in Forms |-> <<>>]]

\* what the stream may answer the next call of the engine in form f; the
\* frame of the peer is there as a whole, so that a peek returns both bytes
\* of the header
FormOutcomes(f) ==
    LET want == FormWants(f, eng[f])
        partial == henv.partials < MaxPartial
        pend == henv.pendings < MaxPending
    IN
    IF want.op = "none" THEN {IoNone}
    ELSE IF want.op = "flush"
    THEN {Io("Ok", 0, <<>>)} \cup (IF pend THEN {IoPending} ELSE {})
    ELSE IF want.op = "write"
    THEN {io \in PollWriteOutcomes(FormWrites(f, eng[f]), partial, FALSE) :
            io.k = "Pending" => pend}
    ELSE {io \in PollReadOutcomes(want, chan[f], FALSE, partial /\ want.op = "read", FALSE) :
            io.k = "Pending" => (pend \/ chan[f] = <<>>)}

\* the step of the engine in form f
FormStep(f, io, wrap) ==
    IF f = "poll"
    THEN (IF henv.role = "initiate" THEN InitiateStep(eng[f], io) ELSE RespondStep(eng[f], io))
    ELSE (IF henv.role = "initiate" THEN HandshakeInitiateStep(eng[f], io, wrap)
          ELSE HandshakeRespondStep(eng[f], io, wrap))

\* the engine in form f is polled
FormPoll(f) ==
    /\ Running(eng[f])
    /\ LET want == FormWants(f, eng[f]) IN
       \E io \in FormOutcomes(f), wrap \in BOOLEAN : \E r \in {FormStep(f, io, wrap)} :
         /\ eng' = [eng EXCEPT ![f] = r.e]
         /\ chan' = IF want.op = "read" /\ io.k = "Ok"
                    THEN [chan EXCEPT ![f] = SubSeq(@, io.n + 1, Len(@))]
                    ELSE chan
         /\ henv' = [henv EXCEPT
                       !.partials = @ + (IF /\ io.k = "Ok"
                                            /\ io.n < Min(want.n, IF want.op = "write"
                                                                   THEN want.n
                                                                   ELSE Len(chan[f]))
                                         THEN 1 ELSE 0),
                       !.pendings = @ + (IF io.k = "Pending" /\ chan[f] # <<>>
                                         THEN 1 ELSE 0),
                       !.ops[f] = OpsAfter(@, want.op, io),
                       !.out[f] = IF want.op = "write"
                                  THEN @ \o SubSeq(FormWrites(f, eng[f]), 1, r.n)
                                  ELSE @]
    /\ UNCHANGED <<codec, frameVars, protoVars>>

FormsNext == \E f \in Forms : FormPoll(f)

SpecHSForms == FormsInit /\ [][FormsNext]_vars

\* C31: the engine of initiate.rs or respond.rs and Handshake::initiate or
\* Handshake::respond, given the same bytes by the peer, end in the same
\* way (both succeed or both fail); whatever one has written the other
\* writes too, and when both have ended they have put the same bytes on
\* the wire and have made the same stream calls in the same order.
C31_FormsBehaveAlike ==
    /\ \A f, g \in Forms :
          \/ Len(henv.out[f]) > Len(henv.out[g])
          \/ henv.out[f] = SubSeq(henv.out[g], 1, Len(henv.out[f]))
    /\ (\A f \in Forms : ~Running(eng[f])) =>
          /\ eng["poll"].ret.k = eng["async"].ret.k
          /\ henv.out["poll"] = henv.out["async"]
          /\ henv.ops["poll"] = henv.ops["async"]


(***************************************************************************)
(* A send between peek_packet_id and try_recv                              *)
(***************************************************************************)

\* a packet of the other type than the one the sides send
OtherPacket(pkts) == IF pkts = <<Heartbeat>> THEN <<HelloA>> ELSE <<Heartbeat>>

\* runs of the lib.rs calls in which every frame holds one packet
ProtoMixedInit ==
    /\ ProtoInit
    /\ penv.form = "async" /\ penv.carry \in {<<Heartbeat>>, <<HelloA>>}

\* side s, whose peek_packet_id has returned an id, calls send with a
\* packet of the other type; the call runs up to its first stream call
ProtoSendOther(s) ==
    /\ pr[s].call.kind = "peek_packet_id" /\ pr[s].call.ret.k = "Ok"
    /\ penv.calls < MaxCalls
    /\ \E c \in {Call("send", OtherPacket(penv.carry), "", 0)} :
        \E r \in {SendGo(pr[s].p, c, IoNone)} :
          /\ pr' = [pr EXCEPT ![s] = [p |-> r.p, call |-> r.c]]
          /\ penv' = [penv EXCEPT
                        !.prev[s] = pr[s].call,
                        !.calls = @ + 1,
                        !.log[s] = IF Running(r.c) THEN Append(@, c.pkts) ELSE @,
                        !.clean[s] = @ /\ pr[s].p.next = 0]
    /\ UNCHANGED <<codec, frameVars, hsVars, net>>

ProtoMixedNext == ProtoNext \/ \E s \in Sides : ProtoSendOther(s)

SpecProtoMixed == ProtoMixedInit /\ [][ProtoMixedNext]_vars

\* C32: on one Protocol, after peek_packet_id has returned the id of a
\* received packet and a send of another packet has returned, the try_recv
\* that follows reads no frame and answers from the packet received: it
\* returns that packet when it asks for its type, and fails with
\* WrongPacketId of its id when it asks for another type; it never answers
\* from the bytes of the packet sent.
C32_SendKeepsPendingPacket ==
    \A s \in Sides :
        LET c == pr[s].call
            pv == penv.prev[s]
        IN
        (/\ penv # <<>>
         /\ c.kind = "try_recv" /\ Completed(c)
         /\ pv.kind = "send" /\ pv.pkts = OtherPacket(penv.carry) /\ pv.ret.k = "Ok") =>
            /\ ~c.read /\ ~c.called
            /\ IF c.P = PendingFrame(s)[1].id
               THEN c.ret.k = "Ok" /\ c.val = PendingFrame(s)[1]
               ELSE WrongId(c.ret) /\ c.ret.e.a = PacketIdNum(PendingFrame(s)[1].id)


(***************************************************************************)
(* Frames at the edges: a Frame Writer and a Frame Reader as in FrameInit, *)
(* a peer that announces fewer bytes than a tag, and a stream that answers *)
(* a call with 0 bytes.                                                    *)
(***************************************************************************)

\* frames whose header announces L < NOISE_OVERHEAD bytes, with the L bytes
ShortFrames == {Framed(PayloadOf(L)) : L \in {0, 1, NOISE_OVERHEAD - 1}}

\* zeros: the stream has answered a call of the Writer (w), of the Reader
\* (r) with Ok(0)
FrameEdgeInit ==
    /\ codec = <<>> /\ ProtoIdle /\ HsIdle
    /\ \E impl \in Impls, n \in FrameLens, small \in BOOLEAN :
        /\ fw = NewWriter(impl, PayloadOf(n),
                          Zeros(IF small THEN HANDSHAKE_BUF_LEN ELSE RAW_MAX_LEN), PairedWriter)
        /\ fr = NewReader(impl, Zeros(IF small THEN 0 ELSE MSG_MAX_LEN),
                          Zeros(IF small THEN HANDSHAKE_BUF_LEN ELSE RAW_MAX_LEN), PairedReader)
        /\ wire = <<>>
        /\ fenv = [payload |-> PayloadOf(n), partials |-> 0, faults |-> 0,
                   closed |-> FALSE, adv |-> "none", sent |-> <<>>, next |-> <<>>,
                   zeros |-> [w |-> FALSE, r |-> FALSE]]

\* instead of the Writer, somebody sends a frame shorter than a tag
FrameInjectShort ==
    /\ fenv.adv = "none" /\ ~fenv.closed
    /\ fw.ret.k = "Continue" /\ fw.put = <<>> /\ wire = <<>> /\ ~fr.called
    /\ \E bytes \in ShortFrames :
          /\ wire' = bytes
          /\ fenv' = [fenv EXCEPT !.adv = "short", !.sent = bytes]
    /\ fw' = [fw EXCEPT !.ret = Ret("Off", 0, NoErr)]
    /\ UNCHANGED <<codec, protoVars, hsVars, fr>>

\* the stream is at its end before the frame is: poll_read answers Ok(0)
FrameReadZero ==
    /\ Running(fr) /\ ReadWants(fr.m).op = "read"
    /\ fenv.closed /\ wire = <<>>
    /\ \E wrap \in BOOLEAN :
         LET r == ReadStep(fr.m, Io("Ok", 0, <<>>), wrap) IN
         fr' = [fr EXCEPT !.m = r.m, !.ret = r.ret, !.called = TRUE]
    /\ fenv' = [fenv EXCEPT !.zeros.r = TRUE]
    /\ UNCHANGED <<codec, protoVars, hsVars, fw, wire>>

\* the stream takes no byte of what the Writer offers: poll_write answers
\* Ok(0)
FrameWriteZero ==
    /\ Running(fw) /\ WriteWants(fw.m) # <<>>
    /\ LET r == WriteStep(fw.m, Io("Ok", 0, <<>>)) IN
       fw' = [fw EXCEPT !.m = r.m, !.ret = r.ret, !.called = TRUE]
    /\ fenv' = [fenv EXCEPT !.zeros.w = TRUE]
    /\ UNCHANGED <<codec, protoVars, hsVars, fr, wire>>

FrameEdgeNext ==
    \/ FrameWrite \/ FrameRead \/ FrameClose
    \/ FrameInjectShort \/ FrameReadZero \/ FrameWriteZero

SpecFrameEdge == FrameEdgeInit /\ [][FrameEdgeNext]_vars

\* C33: whatever length L <= RAW_MAX_LEN the header announces, L < 16
\* included, the Frame Reader does not crash: when it stops, it has
\* returned the decrypted bytes or an error. (A Reader whose peek was
\* answered with one byte is set aside.)
C33_ShortFrameNoCrash ==
    (fenv # <<>> /\ ~fr.short) => fr.ret.k # "Panic"

\* C34: a Frame Reader whose poll_read is answered with 0 bytes before the
\* frame is complete, and a Frame Writer whose poll_write is answered with
\* 0 bytes before the frame is written, end with an error: the poll
\* returns, and does not go on to repeat the call.
C34_ZeroBytesEndThePoll ==
    fenv # <<>> =>
        /\ fenv.zeros.r => fr.ret.k = "Err"
        /\ fenv.zeros.w => fw.ret.k = "Err"


\* C35: at every point where the Frame Reader is suspended (its poll has
\* returned Pending), the Reader has taken from the stream either no byte
\* of the frame or the whole frame, header and body: dropping the Reader
\* there leaves the stream at the start of a frame.
C35_SuspendedAtFrameBoundary ==
    (fenv # <<>> /\ fr.ret.k = "Pending") =>
        fr.eaten = 0 \/ fr.eaten = LEN_OVERHEAD + fr.m.len


\* C36: a poll of a Frame Writer that has completed reports what its first
\* completion reported: after a failure it returns an error, never a
\* success, and after a success the same number of bytes.
C36_RepollRepeatsOutcome ==
    (fenv # <<>> /\ fw.m.impl = "poll" /\ fw.again > 0) =>
        /\ fw.late.k = fw.ret.k
        /\ fw.ret.k = "Ok" => fw.late.n = fw.ret.n


(***************************************************************************)
(* The handle of the stream: the engines on a stream that may fail, and a  *)
(* caller that takes the stream back with done between two polls.         *)
(***************************************************************************)

\* Initiate::done, Respond::done: "io" when the handle is returned, "panic"
\* when the call panics; Write::done and Read::done panic on Empty
EngineDone(e) ==
    IF e.inner = "Empty" THEN "panic"
    ELSE IF e.inner \in {"State", "Flush", "Done"} THEN "io"
    ELSE IF e.m.tag = "Empty" THEN "panic"
    ELSE "io"

\* handle: what done has returned to the caller of side s; faults: the
\* errors the stream has answered
HsDoneInit ==
    /\ codec = <<>> /\ FrameIdle /\ ProtoIdle
    /\ \E e \in SecretPairs :
        eng = [s \in Sides |-> EngineNew(IF s = "A" THEN e[1] ELSE e[2])]
    /\ chan = [s \in Sides |-> <<>>]
    /\ henv = [partials |-> 0, pendings |-> 0, ops |-> [s \in Sides |-> <<>>],
               sent |-> [s \in Sides |-> 0], rcvd |-> [s \in Sides |-> 0],
               ready |-> [s \in Sides |-> 0],
               handle |-> [s \in Sides |-> "none"], faults |-> 0]

\* the engine of side s is polled and its stream call fails
HsFault(s) ==
    /\ Running(eng[s]) /\ henv.handle[s] = "none"
    /\ EngineWants(eng[s]).op # "none" /\ henv.faults < MaxFault
    /\ \E io \in {Io("Err", 0, <<>>)} :
        \E r \in {IF s = "A" THEN InitiateStep(eng[s], io) ELSE RespondStep(eng[s], io)} :
          /\ eng' = [eng EXCEPT ![s] = r.e]
          /\ henv' = [henv EXCEPT !.faults = @ + 1]
    /\ UNCHANGED <<codec, frameVars, protoVars, chan>>

\* between two polls (the engine has not been polled yet, or its last poll
\* has returned Pending, Ready(Ok) or Ready(Err)) the caller of side s
\* calls done, which consumes the engine
HsDone(s) ==
    /\ henv.handle[s] = "none"
    /\ eng[s].inner = "State" \/ eng[s].ret.k \in {"Pending", "Ok", "Err"}
    /\ henv' = [henv EXCEPT !.handle[s] = EngineDone(eng[s])]
    /\ eng' = [eng EXCEPT ![s].ret = Ret("Off", 0, NoErr)]
    /\ UNCHANGED <<codec, frameVars, protoVars, chan>>

HsDoneNext == HsNext \/ \E s \in Sides : HsFault(s) \/ HsDone(s)

SpecHSDone == HsDoneInit /\ [][HsDoneNext]_vars

\* C37: whenever done is called on an Initiate or a Respond between two
\* polls, also after a poll that has returned an error, it returns the
\* handle of the stream; it does not panic.
C37_DoneReturnsHandle ==
    henv # <<>> => \A s \in Sides : henv.handle[s] # "panic"


\* the call has been rejected for a size
SizeRejected(x) == x.ret.k = "Err" /\ x.ret.e.kind \in SizeErrors

\* a frame written with Noise state w decrypts under Noise state r
Pairs(w, r) ==
    Once(LAMBDA f : f.ok /\ ReadMessage(r, f.out, MSG_MAX_LEN).ok
                         /\ ReadMessage(r, f.out, MSG_MAX_LEN).out = PayloadOf(1),
         WriteMessage(w, PayloadOf(1), RAW_MAX_LEN))

\* C38: a Frame Writer that has rejected its payload for its size, and a
\* Frame Reader that has rejected a declared length above RAW_MAX_LEN, hold
\* the Noise state they were given, unchanged, and have moved no byte; the
\* next frame written with the state of the Writer, or of the Reader's
\* peer, decrypts under the state of the Reader.
C38_SizeRejectKeepsNoiseState ==
    fenv # <<>> =>
        /\ SizeRejected(fw) =>
              /\ fw.m.state = (IF fenv.adv = "worn" THEN ExhaustedWriter ELSE PairedWriter)
              /\ fw.put = <<>> /\ fr.m.state = PairedReader
              /\ fenv.adv = "none" => Pairs(fw.m.state, fr.m.state)
        /\ SizeRejected(fr) =>
              /\ fenv.adv = "oversize" /\ fr.m.state = PairedReader /\ fr.eaten = 0
              /\ Pairs(PairedWriter, fr.m.state)

\* the Writer has rejected a payload of MSG_MAX_LEN + 1 bytes
C38_Witness ==
    /\ SizeRejected(fw) /\ fenv.adv = "none" /\ Len(fenv.payload) = MSG_MAX_LEN + 1
    /\ fw.m.state = PairedWriter /\ Pairs(fw.m.state, fr.m.state)


(***************************************************************************)
(* Packets in sequence: a side sends one packet after the other, of        *)
(* changing types, each in a frame of its own.                             *)
(***************************************************************************)

\* side s, whose send has returned Ok, calls send with a packet of the
\* other type than the one it has just sent
ProtoSendMore(s) ==
    /\ pr[s].call.kind = "send" /\ pr[s].call.ret.k = "Ok"
    /\ penv.calls < MaxCalls
    /\ \E c \in {Call("send", OtherPacket(pr[s].call.pkts), "", 0)} :
        \E r \in {SendGo(pr[s].p, c, IoNone)} :
          /\ pr' = [pr EXCEPT ![s] = [p |-> r.p, call |-> r.c]]
          /\ penv' = [penv EXCEPT
                        !.prev[s] = pr[s].call,
                        !.calls = @ + 1,
                        !.log[s] = IF Running(r.c) THEN Append(@, c.pkts) ELSE @,
                        !.clean[s] = @ /\ pr[s].p.next = 0]
    /\ UNCHANGED <<codec, frameVars, hsVars, net>>

ProtoSeqNext == ProtoNext \/ \E s \in Sides : ProtoSendMore(s)

SpecProtoSeq == ProtoMixedInit /\ [][ProtoSeqNext]_vars

\* the length of the frames i..Len(log) of the frames log
RECURSIVE FramesLen(_, _)
FramesLen(log, i) ==
    IF i > Len(log) THEN 0
    ELSE Len(PlainOf(log[i])) + MSG_OVERHEAD + FramesLen(log, i + 1)

\* C39: the other side sends its packets one per frame. A try_recv that
\* is called on an empty cursor and asks for the type of the next packet
\* in the order of sending returns that packet: the k-th frame read gives
\* the k-th packet sent. It takes exactly that frame from the stream (what
\* is left are the frames sent after it) and leaves the cursor empty, so
\* that the next try_recv reads the next frame.
C39_PacketsArriveInOrder ==
    \A s \in Sides :
        LET c == pr[s].call IN
        (/\ penv # <<>>
         /\ c.kind = "try_recv" /\ Completed(c) /\ c.called /\ c.read /\ penv.clean[s]
         /\ c.P = PendingFrame(s)[1].id) =>
            /\ c.ret.k = "Ok" /\ c.val = PendingFrame(s)[1]
            /\ pr[s].p.next = 0
            /\ Completed(pr[Peer(s)].call) =>
                  Len(net[Peer(s)]) = FramesLen(penv.log[Peer(s)], penv.got[s] + 1)

\* A has sent a Heartbeat and then a Hello; B has received the Heartbeat
\* and now the Hello
C39_Witness ==
    /\ penv.log["A"] = << <<Heartbeat>>, <<HelloA>> >>
    /\ penv.got["B"] = 2 /\ penv.prev["B"].kind = "try_recv" /\ penv.prev["B"].val = Heartbeat
    /\ pr["B"].call.kind = "try_recv" /\ pr["B"].call.ret.k = "Ok"
    /\ pr["B"].call.val = HelloA /\ pr["B"].p.next = 0 /\ net["A"] = <<>>


\* the length of the plaintext of the frame side s has read last
LastPlainLen(s) == IF penv.got[s] = 0 THEN 0 ELSE Len(PlainOf(PendingFrame(s)))

\* C40: on both Protocols, in every state, the cursor next is at least 0
\* and at most the length of the plaintext of the frame read last (0
\* before any frame was read), which is at most MSG_MAX_LEN: next -= bytes
\* never goes below 0. The first call of try_recv or peek_packet_id on a
\* Protocol from Handshake::done that has returned has gone to the stream.
C40_CursorWithinPlaintext ==
    \A s \in Sides :
        LET c == pr[s].call IN
        /\ pr[s].p.next >= 0
        /\ pr[s].p.next <= LastPlainLen(s)
        /\ LastPlainLen(s) <= MSG_MAX_LEN
        /\ (IsRecv(c) /\ Completed(c) /\ penv.prev[s] = NoCall) => c.called

\* of a frame of two packets the first has been returned: the cursor
\* stands on what is left
C40_Witness ==
    /\ penv.carry = <<Heartbeat, HelloA>> /\ penv.got["B"] = 1
    /\ pr["B"].call.kind = "try_recv" /\ pr["B"].call.ret.k = "Ok"
    /\ pr["B"].call.val = Heartbeat /\ penv.prev["B"] = NoCall /\ pr["B"].call.called
    /\ pr["B"].p.next = LastPlainLen("B") - HEARTBEAT_LEN /\ pr["B"].p.next > 0

====
